---- MODULE Spec2Model ----
(***************************************************************************)
(* Decode / timestamp / batch / exchange pipeline of libcaer's eDVS        *)
(* (serial, 4-byte records) and DV Explorer (USB, 16-bit tagged words)     *)
(* drivers.                                                                *)
(*                                                                         *)
(* One producer thread runs the translator over byte chunks, one consumer  *)
(* calls DataGet, one control caller changes configuration and starts and  *)
(* stops the stream.  A translator loop iteration is one step; the bytes   *)
(* of the chunk are chosen when the iteration reads them (the chunk is     *)
(* immutable and read once, front to back).                                *)
(***************************************************************************)
EXTENDS Integers, Sequences, FiniteSets, TLC

\* ---------------------------------------------------------------- bounds
MaxChunk == 8            \* longest chunk, in bytes
MaxEvents == 2           \* events one in-progress packet may collect
MaxSmallWraps == 0       \* small wraps explored upwards from a wrapAdd start
MaxOverflow == 1         \* big wraps explored
MaxStarts == 1           \* calls of DataStart explored
MaxRestarts == 2         \* calls of DataStart explored by SpecRestart
MaxReArmTime == 6        \* largest timestamp and deadline explored by SpecReArm
BufferSize == 1          \* capacity of the exchange buffer in Spec, SpecDvs, SpecImu
MaxBufferSize == 2       \* largest capacity explored, in SpecRunning
MaxWraps == 2            \* small wraps explored by SpecTimestamps
DvxMaxChunk == 3         \* bytes in a USB chunk of the DV Explorer
MaxImuCount == 15        \* IMU fragments are explored up to this count
\* Initial packet capacities; the drivers' headers define them, the model
\* takes small ones.
EDVS_POLARITY_DEFAULT_SIZE == 1
EDVS_SPECIAL_DEFAULT_SIZE == 1
DV_EXPLORER_POLARITY_DEFAULT_SIZE == 8
DV_EXPLORER_SPECIAL_DEFAULT_SIZE == 1
DV_EXPLORER_IMU_DEFAULT_SIZE == 1
\* The sensor of the DV Explorer, as the device reports it.
DvsSizeX == 16
DvsSizeY == 2

\* ------------------------------------------------------ program constants
TS_WRAP_ADD == 65536
HIGH_BIT_MASK == 128
LOW_BITS_MASK == 127
EDVS_EVENT_SIZE == 4
INT32_MAX == 2147483647
TS_OVERFLOW_SHIFT == 31
EDVS_ARRAY_SIZE_X == 128
EDVS_ARRAY_SIZE_Y == 128
DVX_TS_WRAP_ADD == 32768
IMU_TOTAL_COUNT == 14
IMU_TYPE_TEMP == 1
IMU_TYPE_GYRO == 2
IMU_TYPE_ACCEL == 4

\* The model checker's integers are 32 bits wide.  An int32_t is an integer;
\* an int64_t v is the pair <<hi, lo>> with v = hi * 2^31 + lo and
\* 0 <= lo <= INT32_MAX, so that (overflow << TS_OVERFLOW_SHIFT) | timestamp
\* is <<overflow, timestamp>>.
I64(hi, lo) == <<hi, lo>>

\* (int64_t) of an int32_t.
I64T(v) == IF v >= 0 THEN I64(0, v) ELSE I64(-1, (v + INT32_MAX) + 1)

Less64(a, b) == a[1] < b[1] \/ (a[1] = b[1] /\ a[2] < b[2])

\* a + n for an int64_t a and 0 <= n <= INT32_MAX.
Add64(a, n) ==
    IF a[2] > INT32_MAX - n THEN I64(a[1] + 1, (a[2] - (INT32_MAX - n)) - 1)
    ELSE I64(a[1], a[2] + n)

\* a + b in int32_t for b >= 0, wrapping on overflow as a two's complement
\* build does.
AddI32(a, b) ==
    IF a > INT32_MAX - b THEN (((a - INT32_MAX) - 1) + b - INT32_MAX) - 1
    ELSE a + b

\* (int32_t) of a configuration value; the values used are below 2^31.
I32T(v) == v

\* Mutant: the address keeps the byte's high bit.
LowBits_wholeByte(b) == b

\* a & 0x7F and a & 0x80 on a byte.
LowBits(b) == b % (LOW_BITS_MASK + 1)
HighBit(b) == (b \div HIGH_BIT_MASK) % 2 = 1

\* ----------------------------------------------------------- input sets
YBytes == {3, 131}                \* a byte without / with the start bit
XBytes == {133}                   \* polarity on, x = 5
TSBytes == {<<0, 0>>, <<0, 1>>}   \* the two timestamp bytes
PacketSizes == {0, 2}             \* maxPacketContainerPacketSize values
Intervals == {1}                  \* maxPacketContainerInterval values
AllocPoints == {"none", "container", "polarity", "special", "growPolarity",
                "growSpecial", "tsResetContainer", "tsResetPacket"}

\* Event types of special events.
TIMESTAMP_WRAP == "TIMESTAMP_WRAP"
TIMESTAMP_RESET == "TIMESTAMP_RESET"

VARIABLES
    run,            \* serialState.serialThreadRun
    pc,             \* producer thread: off, wait, entry, decode, putForce, exited
    stopPc,         \* control caller inside DataStop: idle, join
    starts,         \* history: the number of DataStart calls so far
    bytesLeft,      \* bytesSent - i of the chunk being decoded
    timestamps,     \* state->timestamps
    dvsTSReset,     \* state->dvsTSReset
    maxPacketContainerPacketSize,
    maxPacketContainerInterval,
    dataExchangeBufferSize,      \* the exchange's configured capacity
    currentPacketContainerCommitTimestamp,
    currentPacketContainer,      \* TRUE: allocated, FALSE: NULL
    currentPolarityPacket,
    currentPolarityPacketPosition,
    currentSpecialPacket,
    currentSpecialPacketPosition,
    tsResetContainer,            \* the container held by dataExchangePutForce
    dataExchange,                \* the exchange buffer, oldest first
    lastGot,                     \* the tag of the container DataGet returned last
    currentIMU6Packet,           \* dv_explorer.c: currentPackets.imu6
    currentIMU6PacketPosition,
    dvs,                         \* dv_explorer.c: state->dvs
    imu                          \* dv_explorer.c: state->imu

\* The runtime-tunable thresholds.
cfgVars == <<maxPacketContainerPacketSize, maxPacketContainerInterval,
             dataExchangeBufferSize>>

\* What the translator alone owns.
pktVars == <<timestamps, currentPacketContainerCommitTimestamp,
             currentPacketContainer, currentPolarityPacket,
             currentPolarityPacketPosition, currentSpecialPacket,
             currentSpecialPacketPosition>>

\* What only the DV Explorer translator uses.
dvxVars == <<currentIMU6Packet, currentIMU6PacketPosition, dvs, imu>>

vars == <<run, pc, stopPc, starts, bytesLeft, dvsTSReset, tsResetContainer,
          dataExchange, lastGot, cfgVars, pktVars, dvxVars>>

\* ------------------------------------------------------ packets, containers
\* firstOvf is history: the overflow epoch at the packet's first event.
NULL == [tsOverflow |-> -1, capacity |-> 0, events |-> <<>>, firstOvf |-> -1]

caerEventPacketAllocate(capacity, tsOverflow) ==
    [tsOverflow |-> tsOverflow, capacity |-> capacity, events |-> <<>>,
     firstOvf |-> -1]

caerEventPacketGrow(packet, newCapacity) ==
    [packet EXCEPT !.capacity = newCapacity]

\* Write of one event at index position (== number of events so far).
PacketPutEvent(packet, event, epoch) ==
    [packet EXCEPT !.events = Append(@, event),
                   !.firstOvf = IF packet.events = <<>> THEN epoch ELSE @]

\* Containers carry a tag, id, that tells them apart: history, counted modulo
\* IdRange in the order the containers enter the exchange.
IdRange == dataExchangeBufferSize + 2

\* The tag of the next container to enter the exchange: one after the
\* newest container in the buffer, or after the one got last.
NextId ==
    IF dataExchange # <<>>
    THEN (dataExchange[Len(dataExchange)].id + 1) % IdRange
    ELSE (lastGot + 1) % IdRange

NoId == -1

NoContainer == [id |-> NoId, polarity |-> NULL, special |-> NULL, imu6 |-> NULL]

\* ------------------------------------------------------- exchange buffer
\* Mutant: the container is put at the front of the buffer.
dataExchangePut_atFront(buffer, container) ==
    IF Len(buffer) < dataExchangeBufferSize THEN <<container>> \o buffer
    ELSE buffer

\* dataExchangePut: FALSE, buffer unchanged, when the buffer is full.
dataExchangeHasSpace(buffer) == Len(buffer) < dataExchangeBufferSize

dataExchangePut(buffer, container) ==
    IF dataExchangeHasSpace(buffer) THEN Append(buffer, container) ELSE buffer

\* dataExchangeGet: the oldest container.
dataExchangeGet(buffer) == Head(buffer)

dataExchangeGetRest(buffer) == Tail(buffer)

\* ------------------------------------------------------------ timestamps
\* edvs.c 687-689.  A negative timestamp sign-extends over the overflow bits.
generateFullTimestamp(tsOverflow, timestamp) ==
    IF timestamp >= 0 THEN I64(tsOverflow, timestamp) ELSE I64T(timestamp)

\* edvs.c 691-696, the sum taken in int32_t.
initContainerCommitTimestamp(commitTimestamp, current, interval) ==
    IF commitTimestamp = I64T(-1)
    THEN I64T(AddI32(current, I32T(interval) - 1))
    ELSE commitTimestamp

\* The record's 16-bit timestamp field.
ShortTS(ts1Byte, ts2Byte) == (ts1Byte * 256 + ts2Byte) % TS_WRAP_ADD

\* edvs.c 810: is this record a wrap of the 16-bit counter?
edvsIsWrap(ts, shortTS) == shortTS < ts.lastShort

\* Mutant: the big wrap is looked for one wrap too late.
edvsIsBigWrap_late(ts, shortTS) ==
    edvsIsWrap(ts, shortTS) /\ ts.wrapAdd = INT32_MAX

\* edvs.c 813: is this wrap the big wrap?
edvsIsBigWrap(ts, shortTS) ==
    edvsIsWrap(ts, shortTS) /\ ts.wrapAdd = INT32_MAX - (TS_WRAP_ADD - 1)

\* Mutant: the reset keeps the overflow epoch.
edvsTimestampReset_keepsOverflow(ts) ==
    [wrapOverflow |-> ts.wrapOverflow, wrapAdd |-> 0, lastShort |-> 0,
     last |-> 0, current |-> 0]

\* edvs.c 796-800.
edvsTimestampReset(ts) ==
    [wrapOverflow |-> 0, wrapAdd |-> 0, lastShort |-> 0, last |-> 0,
     current |-> 0]

\* Mutant: the big wrap keeps the last 16-bit field.
edvsTimestampBigWrap_keepsLastShort(ts) ==
    [wrapOverflow |-> ts.wrapOverflow + 1, wrapAdd |-> 0,
     lastShort |-> ts.lastShort, last |-> 0, current |-> 0]

\* edvs.c 816-824.
edvsTimestampBigWrap(ts) ==
    [wrapOverflow |-> ts.wrapOverflow + 1, wrapAdd |-> 0, lastShort |-> 0,
     last |-> 0, current |-> 0]

\* Mutant: a small wrap keeps the record's field as the last one seen.
edvsNextLastShort_keepsField(ts, shortTS) == shortTS

\* lastShort after a record that is no big wrap, edvs.c 836-845.
edvsNextLastShort(ts, shortTS) ==
    IF edvsIsWrap(ts, shortTS) THEN 0 ELSE shortTS

\* edvs.c 836-849: small wrap or normal step.
edvsTimestampUpdate(ts, shortTS) ==
    LET wrapAdd == IF edvsIsWrap(ts, shortTS)
                   THEN AddI32(ts.wrapAdd, TS_WRAP_ADD) ELSE ts.wrapAdd
    IN  [wrapOverflow |-> ts.wrapOverflow,
         wrapAdd |-> wrapAdd,
         lastShort |-> edvsNextLastShort(ts, shortTS),
         last |-> ts.current,
         current |-> AddI32(wrapAdd, shortTS)]

\* ------------------------------------------------- translator, one record
\* The translator's working state while it runs one loop iteration.
\* live is history: the containers allocated and neither freed nor handed
\* to the exchange buffer so far.
Decoder ==
    [ts |-> timestamps,
     commitTS |-> currentPacketContainerCommitTimestamp,
     cont |-> currentPacketContainer,
     pol |-> currentPolarityPacket,
     polPos |-> currentPolarityPacketPosition,
     spc |-> currentSpecialPacket,
     spcPos |-> currentSpecialPacketPosition,
     buffer |-> dataExchange,
     forced |-> NoContainer,
     nextId |-> NextId,
     tsReset |-> FALSE,
     tsBigWrap |-> FALSE,
     live |-> IF currentPacketContainer THEN 1 ELSE 0,
     status |-> "ok"]

Return(d) == [d EXCEPT !.status = "return"]

\* Mutant: a full packet is not grown.
edvsEnsurePacket_noGrow(packet, position, defaultSize, tsOverflow) ==
    IF packet = NULL THEN caerEventPacketAllocate(defaultSize, tsOverflow)
    ELSE packet

\* edvs.c 735-755 (polarity) and 757-777 (special): allocate when NULL,
\* grow when full.  failed: this allocation returns NULL.
edvsEnsurePacket(packet, position, defaultSize, tsOverflow) ==
    IF packet = NULL THEN caerEventPacketAllocate(defaultSize, tsOverflow)
    ELSE IF position >= packet.capacity
         THEN caerEventPacketGrow(packet, position * 2)
         ELSE packet

\* edvs.c 726-777.
edvsAllocate(d, fail) ==
    IF ~d.cont /\ fail = "container" THEN Return(d)
    ELSE IF \/ d.pol = NULL /\ fail = "polarity"
            \/ d.pol # NULL /\ d.polPos >= d.pol.capacity /\ fail = "growPolarity"
    THEN Return([d EXCEPT !.cont = TRUE, !.live = IF d.cont THEN @ ELSE @ + 1])
    ELSE LET pol == edvsEnsurePacket(d.pol, d.polPos,
                        EDVS_POLARITY_DEFAULT_SIZE, d.ts.wrapOverflow)
             live == IF d.cont THEN d.live ELSE d.live + 1
         IN IF \/ d.spc = NULL /\ fail = "special"
               \/ d.spc # NULL /\ d.spcPos >= d.spc.capacity /\ fail = "growSpecial"
            THEN Return([d EXCEPT !.cont = TRUE, !.pol = pol, !.live = live])
            ELSE [d EXCEPT !.cont = TRUE, !.pol = pol, !.live = live,
                           !.spc = edvsEnsurePacket(d.spc, d.spcPos,
                                       EDVS_SPECIAL_DEFAULT_SIZE, d.ts.wrapOverflow)]

\* edvs.c 855-868: x, y inside the array?
edvsInRange(x, y) == x < EDVS_ARRAY_SIZE_X /\ y < EDVS_ARRAY_SIZE_Y

\* Mutant: the event carries the timestamp of the record before.
edvsPolarityEvent_lastTimestamp(d, yByte, xByte) ==
    LET x == LowBits(xByte)
        y == LowBits(yByte)
        polarity == HighBit(xByte)
    IN  IF edvsInRange(x, y)
        THEN [d EXCEPT !.pol = PacketPutEvent(@,
                                  [t |-> d.ts.last, x |-> x, y |-> y,
                                   polarity |-> polarity], d.ts.wrapOverflow),
                       !.polPos = @ + 1]
        ELSE d

\* edvs.c 855-878.
edvsPolarityEvent(d, yByte, xByte) ==
    LET x == LowBits(xByte)
        y == LowBits(yByte)
        polarity == HighBit(xByte)
    IN  IF edvsInRange(x, y)
        THEN [d EXCEPT !.pol = PacketPutEvent(@,
                                  [t |-> d.ts.current, x |-> x, y |-> y,
                                   polarity |-> polarity], d.ts.wrapOverflow),
                       !.polPos = @ + 1]
        ELSE d

\* edvs.c 788-880.
edvsRecord(d, reset, interval, yByte, xByte, shortTS) ==
    IF reset
    THEN LET ts == edvsTimestampReset(d.ts)
         IN  [d EXCEPT !.ts = ts,
                       !.commitTS = initContainerCommitTimestamp(I64T(-1), ts.current, interval),
                       !.tsReset = TRUE]
    ELSE IF edvsIsBigWrap(d.ts, shortTS)
    THEN LET ts == edvsTimestampBigWrap(d.ts)
         IN  [d EXCEPT !.ts = ts,
                       !.spc = PacketPutEvent(@, [t |-> INT32_MAX, type |-> TIMESTAMP_WRAP],
                                              ts.wrapOverflow),
                       !.spcPos = @ + 1,
                       !.tsBigWrap = TRUE]
    ELSE LET ts == edvsTimestampUpdate(d.ts, shortTS)
             d1 == [d EXCEPT !.ts = ts,
                             !.commitTS = initContainerCommitTimestamp(@, ts.current, interval)]
         IN  edvsPolarityEvent(d1, yByte, xByte)

\* Mutant: the size trigger waits for a packet to exceed the maximum.
edvsContainerSizeCommit_strict(d, commitSize) ==
    I32T(commitSize) > 0
    /\ (d.polPos > I32T(commitSize) \/ d.spcPos > I32T(commitSize))

\* edvs.c 885-889.
edvsContainerSizeCommit(d, commitSize) ==
    I32T(commitSize) > 0
    /\ (d.polPos >= I32T(commitSize) \/ d.spcPos >= I32T(commitSize))

\* edvs.c 891-892.
edvsContainerTimeCommit(d) ==
    Less64(d.commitTS, generateFullTimestamp(d.ts.wrapOverflow, d.ts.current))

\* v mod m for an int64_t v and 0 < m, m * m <= INT32_MAX.
Mod64(v, m) == ((v[1] % m) * (((INT32_MAX % m) + 1) % m) + (v[2] % m)) % m

\* edvs.c 926-932: the deadline moves on by whole intervals until it is no
\* longer behind the full timestamp.  The loop runs up to 2^32 / interval
\* times; its result is the least deadline + k * interval that is not below
\* the full timestamp, which is what is computed here (interval > 0).
edvsReArm(full, commitTimestamp, interval) ==
    IF Less64(commitTimestamp, full)
    THEN Add64(full, ((Mod64(commitTimestamp, I32T(interval)) + I32T(interval))
                          - Mod64(full, I32T(interval))) % I32T(interval))
    ELSE commitTimestamp

\* Mutant: the timestamp reset event is merged into the container of the
\* pending events.
edvsContainerOf_mergesReset(d) ==
    [id |-> d.nextId,
     polarity |-> IF d.polPos > 0 THEN d.pol ELSE NULL,
     special |-> IF d.tsReset
                 THEN PacketPutEvent(
                          IF d.spc = NULL
                          THEN caerEventPacketAllocate(1, d.ts.wrapOverflow)
                          ELSE d.spc,
                          [t |-> INT32_MAX, type |-> TIMESTAMP_RESET],
                          d.ts.wrapOverflow)
                 ELSE IF d.spcPos > 0 THEN d.spc ELSE NULL,
     imu6 |-> NULL]

\* edvs.c 903-921: the container as the commit fills it.
edvsContainerOf(d) ==
    [id |-> d.nextId,
     polarity |-> IF d.polPos > 0 THEN d.pol ELSE NULL,
     special |-> IF d.spcPos > 0 THEN d.spc ELSE NULL,
     imu6 |-> NULL]

\* edvs.c 903, 911, 920.
edvsEmptyContainerCommit(d) == ~(d.polPos > 0) /\ ~(d.spcPos > 0)

\* Mutant: a reset frees the pending events instead of committing them.
edvsForward_resetFreesPending(d) ==
    IF d.tsReset \/ (~(d.polPos > 0) /\ ~(d.spcPos > 0)) THEN d.buffer
    ELSE dataExchangePut(d.buffer,
             [id |-> d.nextId,
              polarity |-> IF d.polPos > 0 THEN d.pol ELSE NULL,
              special |-> IF d.spcPos > 0 THEN d.spc ELSE NULL,
              imu6 |-> NULL])

\* Mutant: the commit puts the container whether or not it holds events.
edvsForward_putsEmpty(d) ==
    dataExchangePut(d.buffer,
        [id |-> d.nextId,
         polarity |-> IF d.polPos > 0 THEN d.pol ELSE NULL,
         special |-> IF d.spcPos > 0 THEN d.spc ELSE NULL,
         imu6 |-> NULL])

\* Mutant: a container that finds the buffer full takes the place of the
\* containers in it.
edvsForward_overwritesWhenFull(d) ==
    IF ~(d.polPos > 0) /\ ~(d.spcPos > 0) THEN d.buffer
    ELSE IF Len(d.buffer) < dataExchangeBufferSize
         THEN Append(d.buffer,
                  [id |-> d.nextId,
                   polarity |-> IF d.polPos > 0 THEN d.pol ELSE NULL,
                   special |-> IF d.spcPos > 0 THEN d.spc ELSE NULL,
                   imu6 |-> NULL])
         ELSE <<[id |-> d.nextId,
                 polarity |-> IF d.polPos > 0 THEN d.pol ELSE NULL,
                 special |-> IF d.spcPos > 0 THEN d.spc ELSE NULL,
                 imu6 |-> NULL]>>

\* edvs.c 936-950: an empty container is freed, any other is put, and
\* dropped when the buffer is full.
edvsForward(d) ==
    IF edvsEmptyContainerCommit(d) THEN d.buffer
    ELSE dataExchangePut(d.buffer, edvsContainerOf(d))

\* edvs.c 967-982: the container of the timestamp reset event.
edvsResetContainer(id, tsOverflow) ==
    [id |-> id,
     polarity |-> NULL,
     special |-> PacketPutEvent(caerEventPacketAllocate(1, tsOverflow),
                     [t |-> INT32_MAX, type |-> TIMESTAMP_RESET], tsOverflow),
     imu6 |-> NULL]

\* edvs.c 958-988: the reset container goes to dataExchangePutForce, unless
\* one of its two allocations fails.  The return at 969-973 leaves the
\* container allocated at 960 as it is.
edvsResetCommit(d, fail) ==
    IF ~d.tsReset THEN d
    ELSE IF fail = "tsResetContainer" THEN Return(d)
    ELSE IF fail = "tsResetPacket" THEN Return([d EXCEPT !.live = @ + 1])
    ELSE [d EXCEPT !.forced = edvsResetContainer(d.nextId, d.ts.wrapOverflow),
                   !.live = @ + 1,
                   !.nextId = (@ + 1) % IdRange,
                   !.status = "putForce"]

\* Mutant: a reset hands over its own container and leaves the pending
\* events in the packets in progress, to be committed after it.
edvsCommit_resetBeforePending(d, commitSize, interval, fail) ==
    LET timeCommit == edvsContainerTimeCommit(d)
    IN  IF d.tsReset THEN edvsResetCommit(d, fail)
        ELSE IF ~(d.tsBigWrap \/ edvsContainerSizeCommit(d, commitSize) \/ timeCommit)
        THEN d
        ELSE [d EXCEPT
                 !.pol = IF d.polPos > 0 THEN NULL ELSE @,
                 !.polPos = 0,
                 !.spc = IF d.spcPos > 0 THEN NULL ELSE @,
                 !.spcPos = 0,
                 !.commitTS = IF timeCommit
                              THEN edvsReArm(generateFullTimestamp(
                                       d.ts.wrapOverflow, d.ts.current), @, interval)
                              ELSE @,
                 !.buffer = edvsForward(d),
                 !.cont = FALSE,
                 !.live = @ - 1,
                 !.nextId = IF edvsEmptyContainerCommit(d)
                               \/ ~dataExchangeHasSpace(d.buffer)
                            THEN @ ELSE (@ + 1) % IdRange]

\* edvs.c 885-989.
edvsCommit(d, commitSize, interval, fail) ==
    LET timeCommit == edvsContainerTimeCommit(d)
    IN  IF ~(d.tsReset \/ d.tsBigWrap \/ edvsContainerSizeCommit(d, commitSize)
             \/ timeCommit)
        THEN d
        ELSE LET empty == edvsEmptyContainerCommit(d)
                 d1 == [d EXCEPT
                     !.pol = IF d.polPos > 0 THEN NULL ELSE @,
                     !.polPos = 0,
                     !.spc = IF d.spcPos > 0 THEN NULL ELSE @,
                     !.spcPos = 0,
                     !.commitTS = IF timeCommit
                                  THEN edvsReArm(generateFullTimestamp(
                                           d.ts.wrapOverflow, d.ts.current), @, interval)
                                  ELSE @,
                     !.buffer = edvsForward(d),
                     !.cont = FALSE,
                     !.live = @ - 1,
                     !.nextId = IF empty \/ ~dataExchangeHasSpace(d.buffer)
                                THEN @ ELSE (@ + 1) % IdRange]
             IN  edvsResetCommit(d1, fail)

\* edvs.c 726-989: one record, from the allocations to the commit.
edvsIteration(d, reset, commitSize, interval, yByte, xByte, shortTS, fail) ==
    LET d1 == edvsAllocate(d, fail)
    IN  IF d1.status = "return" THEN d1
        ELSE edvsCommit(edvsRecord(d1, reset, interval, yByte, xByte, shortTS),
                        commitSize, interval, fail)

\* The variables take the translator's working state.
Store(d) ==
    /\ timestamps' = d.ts
    /\ currentPacketContainerCommitTimestamp' = d.commitTS
    /\ currentPacketContainer' = d.cont
    /\ currentPolarityPacket' = d.pol
    /\ currentPolarityPacketPosition' = d.polPos
    /\ currentSpecialPacket' = d.spc
    /\ currentSpecialPacketPosition' = d.spcPos
    /\ dataExchange' = d.buffer
    /\ tsResetContainer' = d.forced

\* Where the loop goes on after an iteration that consumed n bytes.
LoopNext(n) ==
    /\ bytesLeft' = bytesLeft - n
    /\ pc' = IF bytesLeft - n > 0 THEN "decode" ELSE "wait"

\* The model's bounds, as guards of the translator.
WithinBounds(ts, shortTS) ==
    /\ currentPolarityPacketPosition < MaxEvents
    /\ currentSpecialPacketPosition < MaxEvents
    /\ edvsIsBigWrap(ts, shortTS) => ts.wrapOverflow < MaxOverflow
    /\ (edvsIsWrap(ts, shortTS) /\ ~edvsIsBigWrap(ts, shortTS))
           => ts.wrapAdd < MaxSmallWraps * TS_WRAP_ADD

\* ---------------------------------------------------------------- actions
\* edvs.c 712-719: a byte without the start bit is skipped.
EdvsSkipByte ==
    /\ pc = "decode"
    /\ \E yByte \in YBytes : ~HighBit(yByte)
    /\ LoopNext(1)
    /\ UNCHANGED <<run, stopPc, starts, dvsTSReset, tsResetContainer, dataExchange,
                   lastGot, cfgVars, pktVars, dvxVars>>

\* edvs.c 721-724: fewer than four bytes are left, the translator returns.
EdvsTruncated ==
    /\ pc = "decode"
    /\ \E yByte \in YBytes : HighBit(yByte)
    /\ bytesLeft < EDVS_EVENT_SIZE
    /\ bytesLeft' = 0
    /\ pc' = "wait"
    /\ UNCHANGED <<run, stopPc, starts, dvsTSReset, tsResetContainer, dataExchange,
                   lastGot, cfgVars, pktVars, dvxVars>>

\* Mutant: the record that acts on the reset request leaves the flag set.
EdvsDecode_keepsRequest(fail) ==
    /\ bytesLeft >= EDVS_EVENT_SIZE
    /\ \E yByte \in YBytes, xByte \in XBytes, tsBytes \in TSBytes :
          LET shortTS == ShortTS(tsBytes[1], tsBytes[2])
              d == edvsIteration(Decoder, dvsTSReset, maxPacketContainerPacketSize,
                       maxPacketContainerInterval, yByte, xByte, shortTS, fail)
          IN  /\ HighBit(yByte)
              /\ WithinBounds(timestamps, shortTS)
              /\ (fail # "none") = (d.status = "return")
              /\ Store(d)
              /\ dvsTSReset' = dvsTSReset
              /\ CASE d.status = "return" -> bytesLeft' = 0 /\ pc' = "wait"
                   [] d.status = "putForce" ->
                          bytesLeft' = bytesLeft - EDVS_EVENT_SIZE /\ pc' = "putForce"
                   [] OTHER -> LoopNext(EDVS_EVENT_SIZE)
    /\ UNCHANGED <<run, stopPc, starts, lastGot, cfgVars, dvxVars>>

\* edvs.c 726-991: one complete record, decoded with the allocation outcome
\* fail.
EdvsDecode(fail) ==
    /\ bytesLeft >= EDVS_EVENT_SIZE
    /\ \E yByte \in YBytes, xByte \in XBytes, tsBytes \in TSBytes :
          LET shortTS == ShortTS(tsBytes[1], tsBytes[2])
              d == edvsIteration(Decoder, dvsTSReset, maxPacketContainerPacketSize,
                       maxPacketContainerInterval, yByte, xByte, shortTS, fail)
          IN  /\ HighBit(yByte)
              /\ WithinBounds(timestamps, shortTS)
              /\ (fail # "none") = (d.status = "return")
              /\ Store(d)
              /\ dvsTSReset' = IF d.status = "return" /\ ~d.tsReset
                               THEN dvsTSReset ELSE FALSE
              /\ CASE d.status = "return" -> bytesLeft' = 0 /\ pc' = "wait"
                   [] d.status = "putForce" ->
                          bytesLeft' = bytesLeft - EDVS_EVENT_SIZE /\ pc' = "putForce"
                   [] OTHER -> LoopNext(EDVS_EVENT_SIZE)
    /\ UNCHANGED <<run, stopPc, starts, lastGot, cfgVars, dvxVars>>

\* A record whose allocations all succeed.
EdvsRecord ==
    /\ pc = "decode"
    /\ EdvsDecode("none")

\* A record during which one allocation returns NULL: the translator
\* returns, edvs.c 729-733, 740-744, 747-753, 761-766, 769-775, 961-965,
\* 968-972.
EdvsAllocFail ==
    /\ pc = "decode"
    /\ \E fail \in AllocPoints \ {"none"} : EdvsDecode(fail)

\* edvs.c 548-580: the serial thread reads a chunk of at least one record.
SerialRead ==
    /\ pc = "wait"
    /\ run
    /\ \E bytesRead \in EDVS_EVENT_SIZE..MaxChunk : bytesLeft' = bytesRead
    /\ pc' = "entry"
    /\ UNCHANGED <<run, stopPc, starts, dvsTSReset, tsResetContainer, dataExchange,
                   lastGot, cfgVars, pktVars, dvxVars>>

\* Mutant: the translator decodes the chunk whatever the run flag says.
TranslatorEntry_ignoresFlag ==
    /\ pc = "entry"
    /\ pc' = "decode"
    /\ UNCHANGED <<run, stopPc, starts, bytesLeft, dvsTSReset, tsResetContainer,
                   dataExchange, lastGot, cfgVars, pktVars, dvxVars>>

\* edvs.c 702-710: the translator returns at once when not running.
TranslatorEntry ==
    /\ pc = "entry"
    /\ IF run THEN pc' = "decode" /\ UNCHANGED bytesLeft
       ELSE pc' = "wait" /\ bytesLeft' = 0
    /\ UNCHANGED <<run, stopPc, starts, dvsTSReset, tsResetContainer, dataExchange,
                   lastGot, cfgVars, pktVars, dvxVars>>

\* Mutant: the forced put gives up on a full buffer, as the plain put does.
PutForce_dropsWhenFull ==
    /\ pc = "putForce"
    /\ dataExchange' = dataExchangePut(dataExchange, tsResetContainer)
    /\ tsResetContainer' = NoContainer
    /\ pc' = IF bytesLeft > 0 THEN "decode" ELSE "wait"
    /\ UNCHANGED <<run, stopPc, starts, bytesLeft, dvsTSReset, lastGot, cfgVars,
                   pktVars, dvxVars>>

\* dataExchangePutForce, called at edvs.c 987: the container is put as soon
\* as the buffer has space; it is freed when the run flag is cleared first.
PutForce ==
    /\ pc = "putForce"
    /\ \/ dataExchangeHasSpace(dataExchange)
       \/ ~run
    /\ dataExchange' = dataExchangePut(dataExchange, tsResetContainer)
    /\ tsResetContainer' = NoContainer
    /\ pc' = IF bytesLeft > 0 THEN "decode" ELSE "wait"
    /\ UNCHANGED <<run, stopPc, starts, bytesLeft, dvsTSReset, lastGot, cfgVars,
                   pktVars, dvxVars>>

\* edvs.c 548, 582-587: the serial thread leaves its loop.
ThreadExit ==
    /\ pc = "wait"
    /\ ~run
    /\ pc' = "exited"
    /\ UNCHANGED <<run, stopPc, starts, bytesLeft, dvsTSReset, tsResetContainer,
                   dataExchange, lastGot, cfgVars, pktVars, dvxVars>>

\* edvs.c 676-681.
edvsDataGet ==
    /\ dataExchange # <<>>
    /\ lastGot' = dataExchangeGet(dataExchange).id
    /\ dataExchange' = dataExchangeGetRest(dataExchange)
    /\ UNCHANGED <<run, pc, stopPc, starts, bytesLeft, dvsTSReset, tsResetContainer,
                   cfgVars, pktVars, dvxVars>>

\* edvs.c 363-367.
ConfigSetTimestampReset ==
    /\ ~dvsTSReset
    /\ dvsTSReset' = TRUE
    /\ UNCHANGED <<run, pc, stopPc, starts, bytesLeft, tsResetContainer,
                   dataExchange, lastGot, cfgVars, pktVars, dvxVars>>

\* edvs.c 590-650, with the serial thread's start, 504-516 and 542-543.
\* The timestamps are not touched.
edvsStart(limit) ==
    /\ pc = "off"
    /\ stopPc = "idle"
    /\ starts < limit
    /\ starts' = starts + 1
    /\ currentPacketContainerCommitTimestamp' = I64T(-1)
    /\ dataExchange' = <<>>
    /\ currentPacketContainer' = TRUE
    /\ currentPolarityPacket' = caerEventPacketAllocate(EDVS_POLARITY_DEFAULT_SIZE, 0)
    /\ currentSpecialPacket' = caerEventPacketAllocate(EDVS_SPECIAL_DEFAULT_SIZE, 0)
    /\ run' = TRUE
    /\ pc' = "wait"
    /\ UNCHANGED <<stopPc, bytesLeft, timestamps, dvsTSReset,
                   currentPolarityPacketPosition,
                   currentSpecialPacketPosition, tsResetContainer, lastGot,
                   cfgVars, dvxVars>>

edvsDataStart == edvsStart(MaxStarts)

\* DataStart, called again after a DataStop.
edvsDataStartAgain == edvsStart(MaxRestarts)

\* Mutant: DataStop joins without clearing the run flag.
edvsDataStopBegin_keepsFlag ==
    /\ pc \notin {"off", "exited"}
    /\ stopPc = "idle"
    /\ stopPc' = "join"
    /\ UNCHANGED <<run, pc, starts, bytesLeft, dvsTSReset, tsResetContainer,
                   dataExchange, lastGot, cfgVars, pktVars, dvxVars>>

\* edvs.c 518-520, 652-661: DataStop clears the run flag, then joins.
edvsDataStopBegin ==
    /\ pc \notin {"off", "exited"}
    /\ stopPc = "idle"
    /\ run' = FALSE
    /\ stopPc' = "join"
    /\ UNCHANGED <<pc, starts, bytesLeft, dvsTSReset, tsResetContainer,
                   dataExchange, lastGot, cfgVars, pktVars, dvxVars>>

\* edvs.c 41-69, 522-527, 663-672: after the join the buffer is emptied and
\* the current packets and container are freed.
edvsDataStopEnd ==
    /\ stopPc = "join"
    /\ pc = "exited"
    /\ stopPc' = "idle"
    /\ pc' = "off"
    /\ dataExchange' = <<>>
    /\ currentPolarityPacket' = NULL
    /\ currentSpecialPacket' = NULL
    /\ currentPacketContainer' = FALSE
    /\ currentPolarityPacketPosition' = 0
    /\ currentSpecialPacketPosition' = 0
    /\ UNCHANGED <<run, starts, bytesLeft, timestamps, dvsTSReset,
                   currentPacketContainerCommitTimestamp, tsResetContainer,
                   lastGot, cfgVars, dvxVars>>

\* ============================================================ DV Explorer
\* dv_explorer.c.  The words of its stream are 16 bits wide; a word with bit
\* 15 set is a timestamp, any other has a code in bits 14-12 and data in
\* bits 11-0.
DvxIsTimestamp(event) == (event \div 32768) % 2 = 1      \* event & 0x8000
DvxTimestampField(event) == event % 32768                \* event & 0x7FFF
DvxCode(event) == (event \div 4096) % 8                  \* (event & 0x7000) >> 12
DvxData(event) == event % 4096                           \* event & 0x0FFF

\* handleTimestampUpdateNewLogic: a NORMAL step, current = wrapAdd + field.
handleTimestampUpdateNewLogic(ts, event) ==
    [ts EXCEPT !.lastShort = DvxTimestampField(event),
               !.last = ts.current,
               !.current = ts.wrapAdd + DvxTimestampField(event)]

\* handleTimestampResetNewLogic: a RESET zeroes the timestamp state.
handleTimestampResetNewLogic(ts) ==
    [wrapOverflow |-> 0, wrapAdd |-> 0, lastShort |-> 0, last |-> 0,
     current |-> 0]

\* handleTimestampWrapNewLogic, its result: is this wrap a BIG_WRAP, that
\* is, would wrapAdd leave the range of the int32_t?
dvxIsBigWrap(ts, wrapData) == ts.wrapAdd > INT32_MAX - DVX_TS_WRAP_ADD * wrapData

\* handleTimestampWrapNewLogic, its effect: a BIG_WRAP adds one to the
\* overflow epoch and zeroes wrapAdd and lastRaw, a SMALL_WRAP adds the wrap
\* increment, once per wrap the device counted, and zeroes lastRaw.
handleTimestampWrapNewLogic(ts, wrapData) ==
    IF dvxIsBigWrap(ts, wrapData)
    THEN [wrapOverflow |-> ts.wrapOverflow + 1, wrapAdd |-> 0, lastShort |-> 0,
          last |-> 0, current |-> 0]
    ELSE [ts EXCEPT !.wrapAdd = @ + DVX_TS_WRAP_ADD * wrapData,
                    !.lastShort = 0]

\* The translator's working state while it runs one loop iteration.
DvxDecoder ==
    [ts |-> timestamps,
     commitTS |-> currentPacketContainerCommitTimestamp,
     cont |-> currentPacketContainer,
     pol |-> currentPolarityPacket,
     polPos |-> currentPolarityPacketPosition,
     spc |-> currentSpecialPacket,
     spcPos |-> currentSpecialPacketPosition,
     imu6 |-> currentIMU6Packet,
     imu6Pos |-> currentIMU6PacketPosition,
     dvs |-> dvs,
     imu |-> imu,
     buffer |-> dataExchange,
     forced |-> NoContainer,
     nextId |-> NextId,
     tsReset |-> FALSE,
     tsBigWrap |-> FALSE,
     status |-> "ok"]

\* dv_explorer.c 1006-1038: the container and the three packets are
\* allocated when they are NULL; a failed allocation returns.
dvxAllocate(d, fail) ==
    IF ~d.cont /\ fail = "container" THEN Return(d)
    ELSE IF d.spc = NULL /\ fail = "special"
    THEN Return([d EXCEPT !.cont = TRUE])
    ELSE LET spc == IF d.spc = NULL
                    THEN caerEventPacketAllocate(DV_EXPLORER_SPECIAL_DEFAULT_SIZE,
                                                 d.ts.wrapOverflow)
                    ELSE d.spc
         IN IF d.pol = NULL /\ fail = "polarity"
            THEN Return([d EXCEPT !.cont = TRUE, !.spc = spc])
            ELSE LET pol == IF d.pol = NULL
                            THEN caerEventPacketAllocate(
                                     DV_EXPLORER_POLARITY_DEFAULT_SIZE,
                                     d.ts.wrapOverflow)
                            ELSE d.pol
                 IN IF d.imu6 = NULL /\ fail = "imu6"
                    THEN Return([d EXCEPT !.cont = TRUE, !.spc = spc, !.pol = pol])
                    ELSE [d EXCEPT
                             !.cont = TRUE, !.spc = spc, !.pol = pol,
                             !.imu6 = IF d.imu6 = NULL
                                      THEN caerEventPacketAllocate(
                                               DV_EXPLORER_IMU_DEFAULT_SIZE,
                                               d.ts.wrapOverflow)
                                      ELSE @]

\* dv_explorer.c 969-985: is the packet grown, and the packet after it.
dvxNeedsGrow(packet, position, numEvents) ==
    position + numEvents > packet.capacity

\* Mutant: the packet is grown by the number of events instead of doubled.
ensureSpaceForEvents_byNumEvents(packet, position, numEvents) ==
    IF dvxNeedsGrow(packet, position, numEvents)
    THEN caerEventPacketGrow(packet, packet.capacity + numEvents - 1)
    ELSE packet

ensureSpaceForEvents(packet, position, numEvents) ==
    IF dvxNeedsGrow(packet, position, numEvents)
    THEN caerEventPacketGrow(packet, packet.capacity * 2)
    ELSE packet

\* dv_explorer.c 1083-1128, 1182-1211: a special event of the given type,
\* dropped when the packet cannot be grown.
dvxSpecialEvent(d, type, timestamp, fail) ==
    IF dvxNeedsGrow(d.spc, d.spcPos, 1) /\ fail = "grow" THEN d
    ELSE [d EXCEPT !.spc = PacketPutEvent(
                               ensureSpaceForEvents(d.spc, d.spcPos, 1),
                               [t |-> timestamp, type |-> type],
                               d.ts.wrapOverflow),
                   !.spcPos = @ + 1]

\* dv_explorer.c 1131-1141: IMU Start.
dvxImuStart(d) ==
    [d EXCEPT !.imu = [ignoreEvents |-> FALSE, count |-> 0, type |-> 0,
                       forced |-> FALSE, ended |-> FALSE]]

\* dv_explorer.c 1143-1180: IMU End.  The event is copied into the packet
\* when the count is the total; count, token and spansForced are history:
\* the count at the copy, the word that caused it, and whether a reset or
\* big wrap was committed since the sample's start.  ended is history too:
\* an IMU End was taken since the last IMU Start.
dvxImuEnd(d, event, fail) ==
    IF d.imu.ignoreEvents THEN d
    ELSE IF d.imu.count # IMU_TOTAL_COUNT THEN [d EXCEPT !.imu.ended = TRUE]
    ELSE IF dvxNeedsGrow(d.imu6, d.imu6Pos, 1) /\ fail = "grow"
    THEN [d EXCEPT !.imu.ended = TRUE]
    ELSE [d EXCEPT !.imu.ended = TRUE,
                   !.imu6 = PacketPutEvent(
                                ensureSpaceForEvents(d.imu6, d.imu6Pos, 1),
                                [t |-> d.ts.current, count |-> d.imu.count,
                                 token |-> event,
                                 spansForced |-> d.imu.forced],
                                d.ts.wrapOverflow),
                   !.imu6Pos = @ + 1]

\* Mutant: the column address is stored without the range check.
dvxColumnAddress_unchecked(d, data) ==
    [d EXCEPT !.dvs.lastY = data % 1024]

\* dv_explorer.c 1221-1239: column address.
dvxColumnAddress(d, data) ==
    LET columnAddr == data % 1024                        \* data & 0x03FF
    IN  IF columnAddr >= d.dvs.sizeY THEN d
        ELSE [d EXCEPT !.dvs.lastY = columnAddr]

\* dv_explorer.c 1249-1269: the events of the mask bits from offset i on.
RECURSIVE dvxBurstFrom(_, _, _, _)
dvxBurstFrom(d, data, polarity, i) ==
    IF i >= 8 THEN d
    ELSE IF (data \div (2 ^ (7 - i))) % 2 = 0
         THEN dvxBurstFrom(d, data, polarity, i + 1)
         ELSE dvxBurstFrom(
                  [d EXCEPT
                      !.pol = PacketPutEvent(@,
                                  [t |-> d.ts.current, polarity |-> polarity,
                                   x |-> IF d.dvs.invertXY THEN d.dvs.lastY
                                         ELSE d.dvs.lastX + i,
                                   y |-> IF d.dvs.invertXY THEN d.dvs.lastX + i
                                         ELSE d.dvs.lastY],
                                  d.ts.wrapOverflow),
                      !.polPos = @ + 1],
                  data, polarity, i + 1)

\* Mutant: the group's events all carry the ON polarity.
dvxBurst_alwaysOn(d, code, data, fail) ==
    IF dvxNeedsGrow(d.pol, d.polPos, 8) /\ fail = "grow" THEN d
    ELSE dvxBurstFrom(
             [d EXCEPT !.pol = ensureSpaceForEvents(d.pol, d.polPos, 8)],
             data, TRUE, 0)

\* dv_explorer.c 1242-1275: 8-pixel group.
dvxBurst(d, code, data, fail) ==
    IF dvxNeedsGrow(d.pol, d.polPos, 8) /\ fail = "grow" THEN d
    ELSE dvxBurstFrom(
             [d EXCEPT !.pol = ensureSpaceForEvents(d.pol, d.polPos, 8)],
             data, code % 2 = 1, 0)

\* dv_explorer.c 1277-1290: SGROUP sets the row address, MGROUP is dropped.
dvxGroupAddress(d, data) ==
    IF data \div 64 = 0                                  \* data & 0x0FC0
    THEN [d EXCEPT !.dvs.lastX = (data % 64) * 8]
    ELSE d

\* Mutant: without temperature and gyroscope the count skips one short.
dvxImuCountSkip_short(count, type) ==
    IF count = 5 /\ (type \div IMU_TYPE_TEMP) % 2 = 0
    THEN IF (type \div IMU_TYPE_GYRO) % 2 = 1
         THEN (count + 2) % 256 ELSE (count + 7) % 256
    ELSE IF count = 7 /\ (type \div IMU_TYPE_GYRO) % 2 = 0
         THEN (count + 6) % 256
         ELSE count

\* dv_explorer.c 1305-1401: the count after the fragment at count, before
\* the increment of line 1401.
dvxImuCountSkip(count, type) ==
    IF count = 5 /\ (type \div IMU_TYPE_TEMP) % 2 = 0
    THEN IF (type \div IMU_TYPE_GYRO) % 2 = 1
         THEN (count + 2) % 256 ELSE (count + 8) % 256
    ELSE IF count = 7 /\ (type \div IMU_TYPE_GYRO) % 2 = 0
         THEN (count + 6) % 256
         ELSE count

\* dv_explorer.c 1298-1403: IMU data.  The values of the fragments are
\* not kept.
dvxImuData(d) ==
    IF d.imu.ignoreEvents THEN d
    ELSE [d EXCEPT !.imu.count =
                       (dvxImuCountSkip(d.imu.count, d.imu.type) + 1) % 256]

\* dv_explorer.c 1405-1441: IMU scale configuration.
dvxImuConfig(d, data) ==
    IF d.imu.ignoreEvents THEN d
    ELSE LET type == (data \div 32) % 8                  \* (data >> 5) & 0x07
         IN  [d EXCEPT !.imu.type = type,
                       !.imu.count =
                           IF (type \div IMU_TYPE_ACCEL) % 2 = 1 THEN 0
                           ELSE IF (type \div IMU_TYPE_TEMP) % 2 = 1 THEN 6
                           ELSE IF (type \div IMU_TYPE_GYRO) % 2 = 1 THEN 8
                           ELSE 14]

\* dv_explorer.c 1057-1219: the special words.
dvxSpecialWord(d, event, data, interval, fail) ==
    CASE data = 1 ->
             LET ts == handleTimestampResetNewLogic(d.ts)
             IN  [d EXCEPT !.ts = ts,
                           !.commitTS = initContainerCommitTimestamp(
                                            I64T(-1), ts.current, interval),
                           !.tsReset = TRUE]
      [] data = 2 -> dvxSpecialEvent(d, "EXTERNAL_INPUT_FALLING_EDGE", d.ts.current, fail)
      [] data = 3 -> dvxSpecialEvent(d, "EXTERNAL_INPUT_RISING_EDGE", d.ts.current, fail)
      [] data = 4 -> dvxSpecialEvent(d, "EXTERNAL_INPUT_PULSE", d.ts.current, fail)
      [] data = 5 -> dvxImuStart(d)
      [] data = 7 -> dvxImuEnd(d, event, fail)
      [] data = 16 -> dvxSpecialEvent(d, "EXTERNAL_GENERATOR_FALLING_EDGE", d.ts.current, fail)
      [] data = 17 -> dvxSpecialEvent(d, "EXTERNAL_GENERATOR_RISING_EDGE", d.ts.current, fail)
      [] OTHER -> d

\* dv_explorer.c 1292-1449: misc 8-bit data.
dvxMisc8(d, data) ==
    LET misc8Code == (data \div 256) % 16                \* (data & 0x0F00) >> 8
    IN  CASE misc8Code = 0 -> dvxImuData(d)
          [] misc8Code = 3 -> dvxImuConfig(d, data)
          [] OTHER -> d

\* dv_explorer.c 1451-1471: timestamp wrap.
dvxTimestampWrap(d, data, interval, fail) ==
    LET ts == handleTimestampWrapNewLogic(d.ts, data)
    IN  IF dvxIsBigWrap(d.ts, data)
        THEN dvxSpecialEvent([d EXCEPT !.ts = ts, !.tsBigWrap = TRUE],
                             TIMESTAMP_WRAP, INT32_MAX, fail)
        ELSE [d EXCEPT !.ts = ts,
                       !.commitTS = initContainerCommitTimestamp(
                                        @, ts.current, interval)]

\* Mutant: a word of an unknown code is taken as a group address.
dvxWord_unknownAsGroup(d, event, interval, fail) ==
    IF DvxIsTimestamp(event)
    THEN LET ts == handleTimestampUpdateNewLogic(d.ts, event)
         IN  [d EXCEPT !.ts = ts,
                       !.commitTS = initContainerCommitTimestamp(
                                        @, ts.current, interval)]
    ELSE LET code == DvxCode(event)
             data == DvxData(event)
         IN  CASE code = 0 -> dvxSpecialWord(d, event, data, interval, fail)
               [] code = 1 -> dvxColumnAddress(d, data)
               [] code \in {2, 3} -> dvxBurst(d, code, data, fail)
               [] code = 5 -> dvxMisc8(d, data)
               [] code = 7 -> dvxTimestampWrap(d, data, interval, fail)
               [] OTHER -> dvxGroupAddress(d, data)

\* dv_explorer.c 1043-1477: one word of the stream.
dvxWord(d, event, interval, fail) ==
    IF DvxIsTimestamp(event)
    THEN LET ts == handleTimestampUpdateNewLogic(d.ts, event)
         IN  [d EXCEPT !.ts = ts,
                       !.commitTS = initContainerCommitTimestamp(
                                        @, ts.current, interval)]
    ELSE LET code == DvxCode(event)
             data == DvxData(event)
         IN  CASE code = 0 -> dvxSpecialWord(d, event, data, interval, fail)
               [] code = 1 -> dvxColumnAddress(d, data)
               [] code \in {2, 3} -> dvxBurst(d, code, data, fail)
               [] code = 4 -> dvxGroupAddress(d, data)
               [] code = 5 -> dvxMisc8(d, data)
               [] code = 7 -> dvxTimestampWrap(d, data, interval, fail)
               [] OTHER -> d

\* Mutant: the size trigger fires only above the maximum.
dvxContainerSizeCommit_strict(d, commitSize) ==
    I32T(commitSize) > 0
    /\ (\/ d.polPos > I32T(commitSize)
        \/ d.spcPos > I32T(commitSize)
        \/ d.imu6Pos > I32T(commitSize))

\* dv_explorer.c 1482-1486.
dvxContainerSizeCommit(d, commitSize) ==
    I32T(commitSize) > 0
    /\ (\/ d.polPos >= I32T(commitSize)
        \/ d.spcPos >= I32T(commitSize)
        \/ d.imu6Pos >= I32T(commitSize))

\* dv_explorer.c 1496-1523: the container as the commit fills it.
dvxContainerOf(d) ==
    [id |-> d.nextId,
     polarity |-> IF d.polPos > 0 THEN d.pol ELSE NULL,
     special |-> IF d.spcPos > 0 THEN d.spc ELSE NULL,
     imu6 |-> IF d.imu6Pos > 0 THEN d.imu6 ELSE NULL]

\* dv_explorer.c 1496, 1504, 1513, 1522.
dvxEmptyContainerCommit(d) ==
    ~(d.polPos > 0) /\ ~(d.spcPos > 0) /\ ~(d.imu6Pos > 0)

\* Mutant: only the commit of a reset makes the IMU words ignored.
dvxIgnoreAfterForced_resetOnly(d) ==
    IF d.tsReset
    THEN [d.imu EXCEPT !.ignoreEvents = TRUE, !.forced = TRUE]
    ELSE IF d.tsBigWrap THEN [d.imu EXCEPT !.forced = TRUE] ELSE d.imu

\* Mutant: after a forced commit the IMU words are parsed on.
dvxIgnoreAfterForced_parsesOn(d) ==
    IF d.tsReset \/ d.tsBigWrap THEN [d.imu EXCEPT !.forced = TRUE] ELSE d.imu

\* dv_explorer.c 1525-1534: after the commit of a reset or big wrap the IMU
\* words are ignored.  forced is history: such a commit happened since the
\* last IMU Start.
dvxIgnoreAfterForced(d) ==
    IF d.tsReset \/ d.tsBigWrap
    THEN [d.imu EXCEPT !.ignoreEvents = TRUE, !.forced = TRUE]
    ELSE d.imu

\* containerGenerationExecute, called at dv_explorer.c 1536: the deadline is
\* re-armed when it has fired; a container without packets is discarded,
\* any other is put and dropped when the buffer is full; after a reset the
\* container of the reset event goes to dataExchangePutForce.
containerGenerationExecute(d, emptyContainerCommit, container, timeCommit, interval) ==
    LET put == ~emptyContainerCommit /\ dataExchangeHasSpace(d.buffer)
        nextId == IF put THEN (d.nextId + 1) % IdRange ELSE d.nextId
    IN  [d EXCEPT
            !.commitTS = IF timeCommit
                         THEN edvsReArm(generateFullTimestamp(
                                  d.ts.wrapOverflow, d.ts.current), @, interval)
                         ELSE @,
            !.buffer = IF emptyContainerCommit THEN @
                       ELSE dataExchangePut(@, container),
            !.cont = FALSE,
            !.forced = IF d.tsReset
                       THEN edvsResetContainer(nextId, d.ts.wrapOverflow)
                       ELSE @,
            !.nextId = IF d.tsReset THEN (nextId + 1) % IdRange ELSE nextId,
            !.status = IF d.tsReset THEN "putForce" ELSE @]

\* dv_explorer.c 1479-1539.
dvxCommit(d, commitSize, interval) ==
    LET timeCommit == edvsContainerTimeCommit(d)
    IN  IF ~(d.tsReset \/ d.tsBigWrap \/ dvxContainerSizeCommit(d, commitSize)
             \/ timeCommit)
        THEN d
        ELSE containerGenerationExecute(
                 [d EXCEPT !.pol = IF d.polPos > 0 THEN NULL ELSE @,
                           !.polPos = 0,
                           !.spc = IF d.spcPos > 0 THEN NULL ELSE @,
                           !.spcPos = 0,
                           !.imu6 = IF d.imu6Pos > 0 THEN NULL ELSE @,
                           !.imu6Pos = 0,
                           !.imu = dvxIgnoreAfterForced(d)],
                 dvxEmptyContainerCommit(d), dvxContainerOf(d), timeCommit,
                 interval)

\* dv_explorer.c 1006-1540: one word, from the allocations to the commit.
dvxIteration(d, event, commitSize, interval, fail) ==
    LET d1 == dvxAllocate(d, fail)
    IN  IF d1.status = "return" THEN d1
        ELSE dvxCommit(dvxWord(d1, event, interval, fail), commitSize, interval)

\* The variables take the translator's working state.
DvxStore(d) ==
    /\ Store(d)
    /\ currentIMU6Packet' = d.imu6
    /\ currentIMU6PacketPosition' = d.imu6Pos
    /\ dvs' = d.dvs
    /\ imu' = d.imu

\* Words of a stream of pixels: timestamps 0 and 1, reset, a column inside
\* and one outside the sensor, a group of pixels with the bit of offset 0,
\* the group address 2, and an unknown code.
DvsWords == {32768, 32769, 1, 4097, 4098, 12416, 16386, 24576}

\* Words of a stream of IMU samples: timestamps 0 and 1, reset, IMU start
\* and end, an IMU fragment, the IMU configuration "temperature only", and
\* a wrap.
ImuWords == {32768, 32769, 1, 5, 7, 20480, 21280, 28673}

DvxAllocPoints == {"container", "special", "polarity", "imu6"}

\* Is a packet grown for this word?  dv_explorer.c 1086, 1102, 1118, 1165,
\* 1185, 1201, 1244, 1456.
dvxWordGrows(d, event) ==
    /\ ~DvxIsTimestamp(event)
    /\ LET code == DvxCode(event)
           data == DvxData(event)
       IN  \/ code = 0 /\ data \in {2, 3, 4, 16, 17}
                       /\ dvxNeedsGrow(d.spc, d.spcPos, 1)
           \/ code = 0 /\ data = 7 /\ ~d.imu.ignoreEvents
                       /\ d.imu.count = IMU_TOTAL_COUNT
                       /\ dvxNeedsGrow(d.imu6, d.imu6Pos, 1)
           \/ code \in {2, 3} /\ dvxNeedsGrow(d.pol, d.polPos, 8)
           \/ code = 7 /\ dvxIsBigWrap(d.ts, data)
                       /\ dvxNeedsGrow(d.spc, d.spcPos, 1)

\* The model's bounds, as guards of the translator.
DvxWithinBounds(event) ==
    /\ currentPolarityPacketPosition + currentSpecialPacketPosition
           + currentIMU6PacketPosition < MaxEvents
    /\ imu.count < MaxImuCount
    /\ (~DvxIsTimestamp(event) /\ DvxCode(event) = 7) =>
           IF dvxIsBigWrap(timestamps, DvxData(event))
           THEN timestamps.wrapOverflow < MaxOverflow
           ELSE timestamps.wrapAdd < MaxSmallWraps * DVX_TS_WRAP_ADD

\* dv_explorer.c 1006-1540: one word, decoded with the allocation outcome
\* fail.
DvxDecode(fail, words) ==
    /\ bytesLeft >= 2
    /\ \E event \in words :
          LET d == dvxIteration(DvxDecoder, event, maxPacketContainerPacketSize,
                       maxPacketContainerInterval, fail)
          IN  /\ DvxWithinBounds(event)
              /\ CASE fail = "none" -> TRUE
                   [] fail = "grow" ->
                          dvxWordGrows(dvxAllocate(DvxDecoder, fail), event)
                   [] OTHER -> d.status = "return"
              /\ DvxStore(d)
              /\ CASE d.status = "return" -> bytesLeft' = 0 /\ pc' = "wait"
                   [] d.status = "putForce" ->
                          bytesLeft' = bytesLeft - 2 /\ pc' = "putForce"
                   [] OTHER -> LoopNext(2)
    /\ UNCHANGED <<run, stopPc, starts, dvsTSReset, lastGot, cfgVars>>

\* A word whose allocations all succeed.
DvxWord(words) ==
    /\ pc = "decode"
    /\ DvxDecode("none", words)

\* A word before which one allocation returns NULL: the translator
\* returns, dv_explorer.c 1008-1038.
DvxAllocFail(words) ==
    /\ pc = "decode"
    /\ \E fail \in DvxAllocPoints : DvxDecode(fail, words)

\* A word whose packet cannot be grown: its event is dropped,
\* dv_explorer.c 969-985.
DvxGrowFail(words) ==
    /\ pc = "decode"
    /\ DvxDecode("grow", words)

\* A USB transfer completes with a chunk of the stream.
UsbTransfer ==
    /\ pc = "wait"
    /\ run
    /\ \E bufferSize \in 1..DvxMaxChunk : bytesLeft' = bufferSize
    /\ pc' = "entry"
    /\ UNCHANGED <<run, stopPc, starts, dvsTSReset, tsResetContainer, dataExchange,
                   lastGot, cfgVars, pktVars, dvxVars>>

\* Mutant: the odd byte of a chunk is kept.
DvxTranslatorEntry_keepsOddByte ==
    /\ pc = "entry"
    /\ IF run
       THEN /\ bytesLeft' = bytesLeft
            /\ pc' = IF bytesLeft > 0 THEN "decode" ELSE "wait"
       ELSE pc' = "wait" /\ bytesLeft' = 0
    /\ UNCHANGED <<run, stopPc, starts, dvsTSReset, tsResetContainer, dataExchange,
                   lastGot, cfgVars, pktVars, dvxVars>>

\* dv_explorer.c 995-1004: the translator returns at once when not
\* running, and drops the odd byte of a chunk.
DvxTranslatorEntry ==
    /\ pc = "entry"
    /\ IF run
       THEN /\ bytesLeft' = bytesLeft - (bytesLeft % 2)
            /\ pc' = IF bytesLeft - (bytesLeft % 2) > 0 THEN "decode" ELSE "wait"
       ELSE pc' = "wait" /\ bytesLeft' = 0
    /\ UNCHANGED <<run, stopPc, starts, dvsTSReset, tsResetContainer, dataExchange,
                   lastGot, cfgVars, pktVars, dvxVars>>

\* dv_explorer.c 811-905.
dvExplorerDataStart ==
    /\ pc = "off"
    /\ stopPc = "idle"
    /\ starts < MaxStarts
    /\ starts' = starts + 1
    /\ currentPacketContainerCommitTimestamp' = I64T(-1)
    /\ dataExchange' = <<>>
    /\ currentPacketContainer' = TRUE
    /\ currentPolarityPacket' =
           caerEventPacketAllocate(DV_EXPLORER_POLARITY_DEFAULT_SIZE, 0)
    /\ currentSpecialPacket' =
           caerEventPacketAllocate(DV_EXPLORER_SPECIAL_DEFAULT_SIZE, 0)
    /\ currentIMU6Packet' = caerEventPacketAllocate(DV_EXPLORER_IMU_DEFAULT_SIZE, 0)
    /\ imu' = [imu EXCEPT !.ignoreEvents = TRUE]
    /\ run' = TRUE
    /\ pc' = "wait"
    /\ UNCHANGED <<stopPc, bytesLeft, timestamps, dvsTSReset,
                   currentPolarityPacketPosition, currentSpecialPacketPosition,
                   currentIMU6PacketPosition, dvs, tsResetContainer, lastGot,
                   cfgVars>>

\* ------------------------------------------------------------------ Init
\* Timestamp states a stream starts from: the zeroed state of edvsOpen, and
\* the state one wrap below the big wrap, which a stream reaches after
\* 32767 small wraps (the timestamps are kept over DataStop and DataStart).
TimestampStarts ==
    { [wrapOverflow |-> 0, wrapAdd |-> 0, lastShort |-> 0, last |-> 0,
       current |-> 0],
      [wrapOverflow |-> 0, wrapAdd |-> INT32_MAX - (TS_WRAP_ADD - 1),
       lastShort |-> 0, last |-> INT32_MAX - (TS_WRAP_ADD - 1) - TS_WRAP_ADD + 1,
       current |-> INT32_MAX - (TS_WRAP_ADD - 1)] }

Init ==
    /\ run = FALSE
    /\ pc = "off"
    /\ stopPc = "idle"
    /\ starts = 0
    /\ bytesLeft = 0
    /\ timestamps \in TimestampStarts
    /\ dvsTSReset = FALSE
    /\ maxPacketContainerPacketSize \in PacketSizes
    /\ maxPacketContainerInterval \in Intervals
    /\ dataExchangeBufferSize = BufferSize
    /\ currentPacketContainerCommitTimestamp = I64T(0)
    /\ currentPacketContainer = FALSE
    /\ currentPolarityPacket = NULL
    /\ currentPolarityPacketPosition = 0
    /\ currentSpecialPacket = NULL
    /\ currentSpecialPacketPosition = 0
    /\ tsResetContainer = NoContainer
    /\ dataExchange = <<>>
    /\ lastGot = NoId
    /\ currentIMU6Packet = NULL
    /\ currentIMU6PacketPosition = 0
    /\ dvs = [sizeX |-> 0, sizeY |-> 0, invertXY |-> FALSE, lastX |-> 0,
              lastY |-> 0]
    /\ imu = [ignoreEvents |-> FALSE, count |-> 0, type |-> 0,
              forced |-> FALSE, ended |-> FALSE]

Next ==
    \/ edvsDataStart
    \/ SerialRead
    \/ TranslatorEntry
    \/ EdvsSkipByte
    \/ EdvsTruncated
    \/ EdvsRecord
    \/ EdvsAllocFail
    \/ PutForce
    \/ ThreadExit
    \/ edvsDataGet
    \/ ConfigSetTimestampReset
    \/ edvsDataStopBegin
    \/ edvsDataStopEnd

Spec == Init /\ [][Next]_vars

\* A stream that is started once and never stopped, with memory to spare,
\* for each capacity of the exchange buffer.
InitRunning ==
    /\ run = FALSE
    /\ pc = "off"
    /\ stopPc = "idle"
    /\ starts = 0
    /\ bytesLeft = 0
    /\ timestamps = [wrapOverflow |-> 0, wrapAdd |-> 0, lastShort |-> 0,
                     last |-> 0, current |-> 0]
    /\ dvsTSReset = FALSE
    /\ maxPacketContainerPacketSize \in PacketSizes
    /\ maxPacketContainerInterval \in Intervals
    /\ dataExchangeBufferSize \in 1..MaxBufferSize
    /\ currentPacketContainerCommitTimestamp = I64T(0)
    /\ currentPacketContainer = FALSE
    /\ currentPolarityPacket = NULL
    /\ currentPolarityPacketPosition = 0
    /\ currentSpecialPacket = NULL
    /\ currentSpecialPacketPosition = 0
    /\ tsResetContainer = NoContainer
    /\ dataExchange = <<>>
    /\ lastGot = NoId
    /\ currentIMU6Packet = NULL
    /\ currentIMU6PacketPosition = 0
    /\ dvs = [sizeX |-> 0, sizeY |-> 0, invertXY |-> FALSE, lastX |-> 0,
              lastY |-> 0]
    /\ imu = [ignoreEvents |-> FALSE, count |-> 0, type |-> 0,
              forced |-> FALSE, ended |-> FALSE]

NextRunning ==
    \/ edvsDataStart
    \/ SerialRead
    \/ TranslatorEntry
    \/ EdvsSkipByte
    \/ EdvsTruncated
    \/ EdvsRecord
    \/ PutForce
    \/ edvsDataGet
    \/ ConfigSetTimestampReset

SpecRunning == InitRunning /\ [][NextRunning]_vars

\* The consumer keeps calling DataGet, and the thread inside
\* dataExchangePutForce goes on once the buffer has space.
LiveSpec ==
    /\ InitRunning
    /\ [][NextRunning]_vars
    /\ WF_vars(edvsDataGet)
    /\ WF_vars(PutForce)

\* A stream that is stopped and started again, with memory to spare and no
\* timestamp reset asked for.
NextRestart ==
    \/ edvsDataStartAgain
    \/ SerialRead
    \/ TranslatorEntry
    \/ EdvsSkipByte
    \/ EdvsTruncated
    \/ EdvsRecord
    \/ ThreadExit
    \/ edvsDataGet
    \/ edvsDataStopBegin
    \/ edvsDataStopEnd

SpecRestart == Init /\ [][NextRestart]_vars

\* The serial thread and the caller of DataStop keep taking their steps;
\* nothing is assumed of the consumer.
LiveStop ==
    /\ Init
    /\ [][Next]_vars
    /\ WF_vars(TranslatorEntry)
    /\ WF_vars(EdvsSkipByte \/ EdvsTruncated \/ EdvsRecord \/ EdvsAllocFail)
    /\ WF_vars(PutForce)
    /\ WF_vars(ThreadExit)
    /\ WF_vars(edvsDataStopEnd)

\* The DV Explorer after dvExplorerOpen, dv_explorer.c 259-264: the sensor's
\* size and orientation are read from the device.
DvxTimestampStarts ==
    << [wrapOverflow |-> 0, wrapAdd |-> 0, lastShort |-> 0, last |-> 0,
        current |-> 0],
       [wrapOverflow |-> 0, wrapAdd |-> INT32_MAX - (DVX_TS_WRAP_ADD - 1),
        lastShort |-> 0, last |-> INT32_MAX - (DVX_TS_WRAP_ADD - 1),
        current |-> INT32_MAX - (DVX_TS_WRAP_ADD - 1)] >>

InitDvx(timestampStarts, orientations) ==
    /\ run = FALSE
    /\ pc = "off"
    /\ stopPc = "idle"
    /\ starts = 0
    /\ bytesLeft = 0
    /\ timestamps \in timestampStarts
    /\ dvsTSReset = FALSE
    /\ maxPacketContainerPacketSize \in PacketSizes
    /\ maxPacketContainerInterval \in Intervals
    /\ dataExchangeBufferSize = BufferSize
    /\ currentPacketContainerCommitTimestamp = I64T(0)
    /\ currentPacketContainer = FALSE
    /\ currentPolarityPacket = NULL
    /\ currentPolarityPacketPosition = 0
    /\ currentSpecialPacket = NULL
    /\ currentSpecialPacketPosition = 0
    /\ currentIMU6Packet = NULL
    /\ currentIMU6PacketPosition = 0
    /\ tsResetContainer = NoContainer
    /\ dataExchange = <<>>
    /\ lastGot = NoId
    /\ dvs \in [sizeX : {DvsSizeX}, sizeY : {DvsSizeY}, invertXY : orientations,
                 lastX : {0}, lastY : {0}]
    /\ imu = [ignoreEvents |-> FALSE, count |-> 0, type |-> 0,
              forced |-> FALSE, ended |-> FALSE]

NextDvx(words) ==
    \/ dvExplorerDataStart
    \/ UsbTransfer
    \/ DvxTranslatorEntry
    \/ DvxWord(words)
    \/ DvxAllocFail(words)
    \/ DvxGrowFail(words)
    \/ PutForce
    \/ edvsDataGet

\* The DV Explorer on a stream of pixels, in either orientation.
InitDvs == InitDvx({DvxTimestampStarts[1]}, BOOLEAN)

NextDvs == NextDvx(DvsWords)

SpecDvs == InitDvs /\ [][NextDvs]_vars

\* The DV Explorer on a stream of IMU samples, from a zeroed timestamp state
\* and from one wrap below the big wrap.
InitImu == InitDvx({DvxTimestampStarts[1], DvxTimestampStarts[2]}, {FALSE})

NextImu == NextDvx(ImuWords)

SpecImu == InitImu /\ [][NextImu]_vars

\* A device of either kind: the eDVS, whose state has no sensor geometry,
\* or the DV Explorer on a stream of pixels.
IsEdvs == dvs.sizeX = 0

InitChunks == Init \/ InitDvs

NextChunks ==
    \/ IsEdvs /\ edvsDataStart
    \/ IsEdvs /\ SerialRead
    \/ IsEdvs /\ TranslatorEntry
    \/ IsEdvs /\ EdvsSkipByte
    \/ IsEdvs /\ EdvsTruncated
    \/ IsEdvs /\ EdvsRecord
    \/ IsEdvs /\ EdvsAllocFail
    \/ IsEdvs /\ ThreadExit
    \/ IsEdvs /\ ConfigSetTimestampReset
    \/ IsEdvs /\ edvsDataStopBegin
    \/ IsEdvs /\ edvsDataStopEnd
    \/ ~IsEdvs /\ dvExplorerDataStart
    \/ ~IsEdvs /\ UsbTransfer
    \/ ~IsEdvs /\ DvxTranslatorEntry
    \/ ~IsEdvs /\ DvxWord(DvsWords)
    \/ ~IsEdvs /\ DvxAllocFail(DvsWords)
    \/ ~IsEdvs /\ DvxGrowFail(DvsWords)
    \/ PutForce
    \/ edvsDataGet

SpecChunks == InitChunks /\ [][NextChunks]_vars

\* The timestamp fields of a sequence of records without a reset.
ShortTSValues == {0, 1, 2, TS_WRAP_ADD - 1}

\* edvs.c 810-849 on the timestamps alone.
EdvsTimestampStep ==
    /\ \E shortTS \in ShortTSValues :
          /\ edvsIsBigWrap(timestamps, shortTS) =>
                 timestamps.wrapOverflow < MaxOverflow
          /\ (edvsIsWrap(timestamps, shortTS)
                  /\ ~edvsIsBigWrap(timestamps, shortTS)) =>
                 timestamps.wrapAdd < MaxWraps * TS_WRAP_ADD
          /\ timestamps' = IF edvsIsBigWrap(timestamps, shortTS)
                           THEN edvsTimestampBigWrap(timestamps)
                           ELSE edvsTimestampUpdate(timestamps, shortTS)
    /\ UNCHANGED <<run, pc, stopPc, starts, bytesLeft, dvsTSReset,
                   tsResetContainer, dataExchange, lastGot, cfgVars,
                   currentPacketContainerCommitTimestamp,
                   currentPacketContainer, currentPolarityPacket,
                   currentPolarityPacketPosition, currentSpecialPacket,
                   currentSpecialPacketPosition, dvxVars>>

SpecTimestamps == Init /\ [][EdvsTimestampStep]_vars

\* The values of maxPacketContainerInterval SpecReArm explores; edvs.c
\* 320-321 stores whatever the caller gives.
ReArmIntervals == {0, 1, 2, 3}

\* A running stream about to evaluate the time trigger of a record, with any
\* timestamp, any deadline a stream can have reached and any interval.
InitReArm ==
    /\ run = TRUE
    /\ pc = "decode"
    /\ stopPc = "idle"
    /\ starts = 1
    /\ bytesLeft = EDVS_EVENT_SIZE
    /\ maxPacketContainerInterval \in ReArmIntervals
    /\ \E overflow \in 0..MaxOverflow, current \in 0..MaxReArmTime :
           /\ timestamps = [wrapOverflow |-> overflow, wrapAdd |-> 0,
                            lastShort |-> current, last |-> current,
                            current |-> current]
           /\ \E deadline \in 0..MaxReArmTime :
                  /\ deadline >= maxPacketContainerInterval - 1
                  /\ currentPacketContainerCommitTimestamp = I64(overflow, deadline)
    /\ dvsTSReset = FALSE
    /\ maxPacketContainerPacketSize = 0
    /\ dataExchangeBufferSize = BufferSize
    /\ currentPacketContainer = TRUE
    /\ currentPolarityPacket = caerEventPacketAllocate(EDVS_POLARITY_DEFAULT_SIZE, 0)
    /\ currentPolarityPacketPosition = 0
    /\ currentSpecialPacket = caerEventPacketAllocate(EDVS_SPECIAL_DEFAULT_SIZE, 0)
    /\ currentSpecialPacketPosition = 0
    /\ tsResetContainer = NoContainer
    /\ dataExchange = <<>>
    /\ lastGot = NoId
    /\ currentIMU6Packet = NULL
    /\ currentIMU6PacketPosition = 0
    /\ dvs = [sizeX |-> 0, sizeY |-> 0, invertXY |-> FALSE, lastX |-> 0,
              lastY |-> 0]
    /\ imu = [ignoreEvents |-> FALSE, count |-> 0, type |-> 0,
              forced |-> FALSE, ended |-> FALSE]

\* edvs.c 891-892, 926-932 on the commit deadline alone.  With an interval
\* of 0 the loop at 927-931 adds nothing to the deadline and is never left.
EdvsReArmStep ==
    /\ pc = "decode"
    /\ IF edvsContainerTimeCommit(Decoder)
       THEN IF I32T(maxPacketContainerInterval) > 0
            THEN /\ currentPacketContainerCommitTimestamp' =
                        edvsReArm(generateFullTimestamp(timestamps.wrapOverflow,
                                      timestamps.current),
                            currentPacketContainerCommitTimestamp,
                            maxPacketContainerInterval)
                 /\ pc' = "wait"
            ELSE /\ pc' = "rearm"
                 /\ UNCHANGED currentPacketContainerCommitTimestamp
       ELSE /\ pc' = "wait"
            /\ UNCHANGED currentPacketContainerCommitTimestamp
    /\ UNCHANGED <<run, stopPc, starts, bytesLeft, timestamps, dvsTSReset,
                   tsResetContainer, dataExchange, lastGot, cfgVars,
                   currentPacketContainer, currentPolarityPacket,
                   currentPolarityPacketPosition, currentSpecialPacket,
                   currentSpecialPacketPosition, dvxVars>>

\* edvs.c 848-849: the next record's timestamp, not below the last one.
EdvsReArmNextRecord ==
    /\ pc = "wait"
    /\ \E current \in timestamps.current..MaxReArmTime :
           timestamps' = [timestamps EXCEPT !.last = timestamps.current,
                                            !.lastShort = current,
                                            !.current = current]
    /\ pc' = "decode"
    /\ UNCHANGED <<run, stopPc, starts, bytesLeft, dvsTSReset,
                   tsResetContainer, dataExchange, lastGot, cfgVars,
                   currentPacketContainerCommitTimestamp,
                   currentPacketContainer, currentPolarityPacket,
                   currentPolarityPacketPosition, currentSpecialPacket,
                   currentSpecialPacketPosition, dvxVars>>

NextReArm == EdvsReArmStep \/ EdvsReArmNextRecord

SpecReArm == InitReArm /\ [][NextReArm]_vars

\* edvs.c 927-931, the loop as it runs (interval > 0).
RECURSIVE edvsReArmLoop(_, _, _)
edvsReArmLoop(full, commitTimestamp, interval) ==
    IF Less64(commitTimestamp, full)
    THEN edvsReArmLoop(full, Add64(commitTimestamp, I32T(interval)), interval)
    ELSE commitTimestamp

\* edvs.c 590-634 and 504-508: DataStart up to thrd_create.  The caller
\* then waits for the thread's ready signal (stopPc = "starting"), the
\* thread is created and has not yet run (pc = "created").
serialThreadStart ==
    /\ pc = "off"
    /\ stopPc = "idle"
    /\ starts < MaxStarts
    /\ starts' = starts + 1
    /\ currentPacketContainerCommitTimestamp' = I64T(-1)
    /\ dataExchange' = <<>>
    /\ currentPacketContainer' = TRUE
    /\ currentPolarityPacket' = caerEventPacketAllocate(EDVS_POLARITY_DEFAULT_SIZE, 0)
    /\ currentSpecialPacket' = caerEventPacketAllocate(EDVS_SPECIAL_DEFAULT_SIZE, 0)
    /\ stopPc' = "starting"
    /\ pc' = "created"
    /\ UNCHANGED <<run, bytesLeft, timestamps, dvsTSReset,
                   currentPolarityPacketPosition,
                   currentSpecialPacketPosition, tsResetContainer, lastGot,
                   cfgVars, dvxVars>>

\* edvs.c 542-543: the serial thread signals that it is ready.
serialThreadRunReady ==
    /\ pc = "created"
    /\ run' = TRUE
    /\ pc' = "wait"
    /\ UNCHANGED <<stopPc, starts, bytesLeft, dvsTSReset, tsResetContainer,
                   dataExchange, lastGot, cfgVars, pktVars, dvxVars>>

\* edvs.c 510-515: the starter loads the run flag; when it reads true
\* serialThreadStart returns, else it loads again.
serialThreadStartWait ==
    /\ stopPc = "starting"
    /\ run
    /\ stopPc' = "idle"
    /\ UNCHANGED <<run, pc, starts, bytesLeft, dvsTSReset, tsResetContainer,
                   dataExchange, lastGot, cfgVars, pktVars, dvxVars>>

\* edvs.c 566-574, 578-583: sp_blocking_read fails, the thread leaves its
\* loop, clears the run flag and returns.
SerialReadError ==
    /\ pc = "wait"
    /\ run
    /\ run' = FALSE
    /\ pc' = "exited"
    /\ UNCHANGED <<stopPc, starts, bytesLeft, dvsTSReset, tsResetContainer,
                   dataExchange, lastGot, cfgVars, pktVars, dvxVars>>

\* The start of the stream step by step, and the stream that follows.
NextStart ==
    \/ serialThreadStart
    \/ serialThreadRunReady
    \/ serialThreadStartWait
    \/ SerialReadError
    \/ SerialRead
    \/ TranslatorEntry
    \/ EdvsSkipByte
    \/ EdvsTruncated
    \/ EdvsRecord
    \/ EdvsAllocFail
    \/ PutForce
    \/ edvsDataGet
    \/ ConfigSetTimestampReset

SpecStart == Init /\ [][NextStart]_vars

\* ------------------------------------------------------------ properties
\* The containers handed to the exchange: those in the buffer, and the one
\* dataExchangePutForce holds.
Enqueued ==
    {dataExchange[i] : i \in 1..Len(dataExchange)}
        \cup (IF tsResetContainer = NoContainer THEN {} ELSE {tsResetContainer})

HasReset(container) ==
    \E i \in 1..Len(container.special.events) :
        container.special.events[i].type = TIMESTAMP_RESET

Packets(container) == {container.polarity, container.special, container.imu6}

\* This step is the record in which the translator takes the pending reset
\* request: only the translator clears the flag, edvs.c 789-790.
ResetTaken == dvsTSReset /\ ~dvsTSReset'

\* The container the in-progress packets make in the record decoded next:
\* a full packet is grown at the top of the loop, edvs.c 743-755, 765-777.
PendingContainer ==
    [id |-> NextId,
     polarity |-> IF currentPolarityPacketPosition > 0
                  THEN edvsAllocate(Decoder, "none").pol ELSE NULL,
     special |-> IF currentSpecialPacketPosition > 0
                 THEN edvsAllocate(Decoder, "none").spc ELSE NULL,
     imu6 |-> NULL]

PendingEmpty ==
    currentPolarityPacketPosition = 0 /\ currentSpecialPacketPosition = 0

\* C1, as stated: in the record that takes a reset, no container enters the
\* exchange ahead of the reset container.
C1_ResetContainerIsNext ==
    [][ResetTaken => dataExchange' = dataExchange]_vars

\* C1, amended: the record that takes a reset first commits the pending
\* events, in one ordinary container that is put when it is not empty and
\* the buffer has space, and leaves the in-progress packets empty; then the
\* reset container is the next container to enter the exchange: while it
\* waits in dataExchangePutForce nothing else is appended.
C1_PendingThenReset ==
    [][/\ ResetTaken =>
           /\ currentPolarityPacketPosition' = 0
           /\ currentSpecialPacketPosition' = 0
           /\ dataExchange' =
                  IF PendingEmpty \/ ~dataExchangeHasSpace(dataExchange)
                  THEN dataExchange
                  ELSE Append(dataExchange, PendingContainer)
           /\ pc' = "putForce" => HasReset(tsResetContainer')
       /\ (pc = "putForce" /\ dataExchange' # dataExchange) =>
           \/ dataExchange # <<>> /\ dataExchange' = Tail(dataExchange)
           \/ dataExchange' = Append(dataExchange, tsResetContainer)
           \/ dataExchange' = <<>>]_vars

\* C1, the case: the reset container waits while the container of the
\* events that were pending sits in the buffer ahead of it.
C1_Witness ==
    /\ pc = "putForce"
    /\ dataExchange # <<>>
    /\ dataExchange[Len(dataExchange)].polarity # NULL
    /\ tsResetContainer.id = (dataExchange[Len(dataExchange)].id + 1) % IdRange

\* C2: a container that carries a TIMESTAMP_RESET event carries nothing
\* else: no polarity packet, no IMU packet, one special event.
C2_ResetAlone ==
    \A container \in Enqueued :
        HasReset(container) =>
            /\ container.polarity = NULL
            /\ container.imu6 = NULL
            /\ Len(container.special.events) = 1

\* C2, the case: a reset container is in the buffer, taken while events were
\* pending, with the container of those events already got.
C2_Witness ==
    /\ dataExchange # <<>>
    /\ HasReset(dataExchange[1])
    /\ lastGot # NoId

\* C4, as stated: while the stream keeps running, every reset that is taken
\* has its container handed to dataExchangePutForce, and a container that
\* leaves dataExchangePutForce is in the buffer.
C4_ResetNeverLostWhileRunning ==
    [][/\ (ResetTaken /\ run') => HasReset(tsResetContainer')
       /\ (pc = "putForce" /\ pc' # "putForce" /\ run') =>
              /\ dataExchange' # <<>>
              /\ dataExchange'[Len(dataExchange')] = tsResetContainer]_vars

\* C6: every container handed to the exchange has at least one packet that
\* holds at least one event.
C6_NoEmptyContainer ==
    \A container \in Enqueued :
        \E packet \in Packets(container) : Len(packet.events) > 0

\* C6, the case: a commit found both in-progress packets empty and freed the
\* container: the packets are still there, the container is gone, and
\* nothing has entered the buffer.
C6_Witness ==
    /\ ~currentPacketContainer
    /\ currentPolarityPacket # NULL /\ currentPolarityPacketPosition = 0
    /\ currentSpecialPacket # NULL /\ currentSpecialPacketPosition = 0
    /\ dataExchange = <<>>
    /\ lastGot = NoId

\* C9, as stated, for the polarity packets: every polarity packet handed to
\* the exchange has as its time-base the overflow epoch that was current
\* when its first event was written.
C9_PolarityTimeBase ==
    \A container \in Enqueued :
        container.polarity # NULL =>
            container.polarity.tsOverflow = container.polarity.firstOvf

\* C3: with the stream running and the consumer calling DataGet, every reset
\* container handed to dataExchangePutForce is got by the consumer in the
\* end, also when the buffer was full at that moment.
C3_ForcedDelivery ==
    \A k \in 0..(MaxBufferSize + 1) :
        (pc = "putForce" /\ tsResetContainer.id = k) ~> (lastGot = k)

\* C3, the case: a reset container is handed to dataExchangePutForce while
\* the buffer, of capacity 1, is full.
C3_Witness ==
    /\ pc = "putForce"
    /\ run
    /\ dataExchangeBufferSize = 1
    /\ Len(dataExchange) = 1
    /\ HasReset(tsResetContainer)

\* The tag after tag id.
NextTag(id) == IF id = NoId THEN 0 ELSE (id + 1) % IdRange

\* C5: the buffer grows only at its end, by the container accepted, which
\* takes the tag after the newest one; DataGet returns the oldest container
\* of the buffer and removes it, and its tag is the one after the tag of
\* the container returned before: the order of the gets is the order of
\* the puts, without repeats and without strangers.
C5_Fifo ==
    [][/\ Len(dataExchange') > Len(dataExchange) =>
           /\ Len(dataExchange') = Len(dataExchange) + 1
           /\ SubSeq(dataExchange', 1, Len(dataExchange)) = dataExchange
           /\ dataExchange'[Len(dataExchange')].id =
                  NextTag(IF dataExchange = <<>> THEN lastGot
                          ELSE dataExchange[Len(dataExchange)].id)
       /\ lastGot' # lastGot =>
           /\ dataExchange # <<>>
           /\ lastGot' = dataExchange[1].id
           /\ lastGot' = NextTag(lastGot)
           /\ dataExchange' = Tail(dataExchange)]_vars

\* C5, the case: two containers wait in the buffer, an ordinary one and a
\* reset container, after an earlier one was got.
C5_Witness ==
    /\ Len(dataExchange) = 2
    /\ ~HasReset(dataExchange[1])
    /\ HasReset(dataExchange[2])
    /\ lastGot # NoId

\* C7, as stated: without a reset, current never decreases except in a step
\* that adds one wrap increment to wrapAdd or one to the overflow epoch.
C7_MonotonicReconstruction ==
    [][\/ timestamps'.current >= timestamps.current
       \/ timestamps'.wrapAdd - timestamps.wrapAdd = TS_WRAP_ADD
       \/ timestamps'.wrapOverflow = timestamps.wrapOverflow + 1]_vars

\* ------------------------------------------------------------ DV Explorer
\* The IMU events the translator has written: those of the packet in
\* progress and of every container on its way to the consumer.
ImuEvents ==
    {currentIMU6Packet.events[i] : i \in DOMAIN currentIMU6Packet.events}
    \cup UNION {{c.imu6.events[i] : i \in DOMAIN c.imu6.events} : c \in Enqueued}

\* A sample is under way: started, not all of its fragments counted.
ImuPartial == imu.count > 0 /\ imu.count < IMU_TOTAL_COUNT

\* C8: no container holds a partially assembled IMU event.  Every IMU event
\* in a packet was copied there by an IMU End word, at the full fragment
\* count, from a sample that no reset or big-wrap commit interrupted; and
\* from such a commit on, until the next IMU Start, the IMU words are
\* ignored, so the interrupted sample never becomes an event.
C8_ImuAtomic ==
    /\ \A e \in ImuEvents :
           e.count = IMU_TOTAL_COUNT /\ e.token = 7 /\ ~e.spansForced
    /\ imu.forced => imu.ignoreEvents

\* C8 happens: a reset came after the start of a sample and some of its
\* fragments; the reset's container waits for the consumer, who has a
\* container with IMU events to take first.
C8_Witness ==
    /\ pc = "putForce"
    /\ HasReset(tsResetContainer)
    /\ imu.forced /\ ImuPartial
    /\ \E i \in DOMAIN dataExchange : dataExchange[i].imu6 # NULL

\* The polarity events of the containers on their way to the consumer.
DeliveredPolarity ==
    UNION {{c.polarity.events[i] : i \in DOMAIN c.polarity.events} : c \in Enqueued}

\* The resolution the DV Explorer announces, dv_explorer.c 268-275: the
\* sizes are swapped when the sensor is mounted with X and Y inverted.
dvsSizeX == IF dvs.invertXY THEN dvs.sizeY ELSE dvs.sizeX

dvsSizeY == IF dvs.invertXY THEN dvs.sizeX ELSE dvs.sizeY

\* C10: every polarity event of the DV Explorer that reaches a container
\* has x below the width and y below the height of the sensor.
C10_DvxCoordinatesInRange ==
    \A e \in DeliveredPolarity : e.x < dvsSizeX /\ e.y < dvsSizeY

\* Column-address words whose address is outside the sensor: the first two
\* addresses beyond it, the last address of the field, and the first one
\* beyond it with the start-of-frame bit.
ColumnWordsOutside ==
    {4096 + DvsSizeY, 4096 + DvsSizeY + 1, 4096 + 1023, 4096 + 2048 + DvsSizeY}

\* The translator's working state at the word it is about to decode.
DvxAtWord == dvxAllocate(DvxDecoder, "none")

\* C11: a column-address word with an address at or beyond the resolution
\* changes nothing: lastY and lastX keep their values, no event is appended
\* to any packet, and a pixel group decoded after it gives the events it
\* would have given before it; so the stored column address is always
\* inside the sensor.
C11_ColumnRejected ==
    /\ dvs.lastY < dvs.sizeY
    /\ pc = "decode" =>
           \A event \in ColumnWordsOutside :
               LET r == dvxWord(DvxAtWord, event, maxPacketContainerInterval, "none")
               IN  /\ r.dvs = DvxAtWord.dvs
                   /\ r.pol = DvxAtWord.pol /\ r.polPos = DvxAtWord.polPos
                   /\ r.spc = DvxAtWord.spc /\ r.imu6 = DvxAtWord.imu6
                   /\ dvxBurst(r, 3, 128, "none") = dvxBurst(DvxAtWord, 3, 128, "none")

\* C11 happens: a word is decoded while the stored address is one a valid
\* column word has set, a row address is stored, and the packet in progress
\* holds an event of that column.
C11_Witness ==
    /\ pc = "decode"
    /\ dvs.lastY = 1 /\ dvs.lastX = 16
    /\ \E i \in DOMAIN currentPolarityPacket.events :
           currentPolarityPacket.events[i].y = 1 \/ currentPolarityPacket.events[i].x = 1

\* The packets in progress with their positions.
InProgress ==
    {<<currentPolarityPacket, currentPolarityPacketPosition>>,
     <<currentSpecialPacket, currentSpecialPacketPosition>>,
     <<currentIMU6Packet, currentIMU6PacketPosition>>}

PolarityFull ==
    /\ currentPolarityPacket # NULL
    /\ currentPolarityPacketPosition >= currentPolarityPacket.capacity

\* C13, as stated for the eDVS: a record at which the full polarity packet
\* is not grown costs that record alone, and the translator goes on with
\* the bytes after it.  A translator step that starts at a complete record
\* with the polarity packet full and leaves the packet as it is, is either
\* the skip of a byte or the failed growth.
C13_GrowFailureDropsOneRecord ==
    [][(/\ pc = "decode"
        /\ bytesLeft >= EDVS_EVENT_SIZE
        /\ PolarityFull
        /\ currentPolarityPacket' = currentPolarityPacket
        /\ bytesLeft' # bytesLeft)
       => bytesLeft' \in {bytesLeft - 1, bytesLeft - EDVS_EVENT_SIZE}]_vars

\* edvs.c 885-895: does the commit fire after this record?
edvsCommitFires(d, commitSize) ==
    \/ d.tsReset
    \/ d.tsBigWrap
    \/ edvsContainerSizeCommit(d, commitSize)
    \/ edvsContainerTimeCommit(d)

\* Is this the container of a timestamp reset and nothing else?
ResetOnly(container) ==
    /\ container.polarity = NULL
    /\ container.imu6 = NULL
    /\ Len(container.special.events) = 1
    /\ HasReset(container)

\* C14: a commit that finds the exchange buffer full drops its container.
\* For every record the translator may decode next while the buffer is
\* full, if the record's commit fires then the buffer keeps its contents,
\* the packets in progress and their positions are cleared as after a put,
\* the current container is gone, the translator does not return, and the
\* events of the dropped container are nowhere left to be delivered: the
\* only container the iteration may still hand over is that of a reset.
C14_FullQueueDropsContainer ==
    (pc = "decode" /\ bytesLeft >= EDVS_EVENT_SIZE
         /\ ~dataExchangeHasSpace(dataExchange)) =>
        \A yByte \in YBytes, xByte \in XBytes, tsBytes \in TSBytes :
            LET rec == edvsRecord(edvsAllocate(Decoder, "none"), dvsTSReset,
                           maxPacketContainerInterval, yByte, xByte,
                           ShortTS(tsBytes[1], tsBytes[2]))
                r == edvsCommit(rec, maxPacketContainerPacketSize,
                         maxPacketContainerInterval, "none")
            IN  (HighBit(yByte) /\ edvsCommitFires(rec, maxPacketContainerPacketSize)) =>
                    /\ r.buffer = dataExchange
                    /\ r.polPos = 0 /\ r.spcPos = 0
                    /\ r.pol.events = <<>> /\ r.spc.events = <<>>
                    /\ ~r.cont
                    /\ r.status # "return"
                    /\ r.forced = NoContainer \/ ResetOnly(r.forced)

\* C14 happens: the polarity packet in progress was moved into a container
\* by the last commit, and the full buffer holds a container without
\* polarity events that is no reset container; the committed container was
\* dropped.
C14_Witness ==
    /\ run /\ pc \in {"decode", "wait"}
    /\ ~currentPacketContainer
    /\ currentPolarityPacket = NULL
    /\ tsResetContainer = NoContainer
    /\ ~dataExchangeHasSpace(dataExchange)
    /\ \A i \in DOMAIN dataExchange :
           dataExchange[i].polarity = NULL /\ ~HasReset(dataExchange[i])

C16_NotRunningEntryReturns ==
    [][/\ (pc = "entry" /\ ~run /\ pc' # pc) =>
              /\ pc' = "wait" /\ bytesLeft' = 0
              /\ UNCHANGED <<pktVars, tsResetContainer, dataExchange, dvxVars>>
       /\ (pc = "off" /\ pc' = "off") =>
              UNCHANGED <<pktVars, tsResetContainer, dataExchange, dvxVars>>]_vars

\* C16 happens: a chunk arrives at the translator after DataStop cleared the
\* flag, with events pending and a container in the buffer.
C16_Witness ==
    /\ pc = "entry" /\ ~run /\ stopPc = "join"
    /\ bytesLeft >= EDVS_EVENT_SIZE
    /\ currentPolarityPacketPosition > 0
    /\ dataExchange # <<>>

\* The timestamp state of a stream that has decoded nothing yet.
FreshTimestamps ==
    [wrapOverflow |-> 0, wrapAdd |-> 0, lastShort |-> 0, last |-> 0,
     current |-> 0]

\* C17: a DataStart that follows a DataStop begins from fresh state: the
\* timestamps are zeroed, the packets in progress are new and empty with
\* positions 0, and their time-base is the decoder's overflow epoch.
C17_RestartIsFresh ==
    [][(starts >= 1 /\ pc = "off" /\ pc' = "wait") =>
           /\ timestamps' = FreshTimestamps
           /\ currentPolarityPacket'.events = <<>>
           /\ currentSpecialPacket'.events = <<>>
           /\ currentPolarityPacketPosition' = 0
           /\ currentSpecialPacketPosition' = 0
           /\ currentPolarityPacket'.tsOverflow = timestamps'.wrapOverflow
           /\ currentSpecialPacket'.tsOverflow = timestamps'.wrapOverflow]_vars

\* C18: every container has one owner.  Whatever record the translator
\* decodes next and whichever allocation fails in it, each container that is
\* allocated and neither freed nor handed to the exchange buffer is held by
\* the current container or is the reset container given to the forced put,
\* and a commit leaves the slot of every moved packet empty at position 0.
C18_SingleOwner ==
    (pc = "decode" /\ bytesLeft >= EDVS_EVENT_SIZE) =>
        \A yByte \in YBytes, xByte \in XBytes, tsBytes \in TSBytes, fail \in AllocPoints :
            LET r == edvsIteration(Decoder, dvsTSReset, maxPacketContainerPacketSize,
                         maxPacketContainerInterval, yByte, xByte,
                         ShortTS(tsBytes[1], tsBytes[2]), fail)
            IN  (HighBit(yByte) /\ (fail # "none") = (r.status = "return")) =>
                    /\ r.live = (IF r.cont THEN 1 ELSE 0)
                                  + (IF r.forced # NoContainer THEN 1 ELSE 0)
                    /\ r.polPos = 0 => (r.pol = NULL \/ r.pol.events = <<>>)
                    /\ r.spcPos = 0 => (r.spc = NULL \/ r.spc.events = <<>>)

\* No event is held by the packets in progress.
NothingPending ==
    /\ PendingEmpty
    /\ currentPolarityPacket.events = <<>>
    /\ currentSpecialPacket.events = <<>>

\* C19: the reset container stands in the buffer between the events decoded
\* before the reset and those decoded after it.  When it is handed to the
\* forced put every event decoded so far has left the packets in progress,
\* in a container that entered the buffer ahead of it or was dropped; while
\* it waits the translator decodes nothing; and it enters the buffer at the
\* end, so behind all of those and ahead of whatever is committed later.
C19_ResetBetween ==
    [][/\ pc' = "putForce" => (HasReset(tsResetContainer') /\ NothingPending')
       /\ pc = "putForce" => UNCHANGED pktVars
       /\ (pc = "putForce" /\ pc' # "putForce") =>
              \/ dataExchange' = Append(dataExchange, tsResetContainer)
              \/ ~run /\ dataExchange' = dataExchange]_vars

\* C19 happens: a container of events decoded before the reset is the oldest
\* in the buffer, the reset container stands behind it, and events decoded
\* after the reset are pending.
C19_Witness ==
    /\ Len(dataExchange) = 2
    /\ dataExchange[1].polarity # NULL
    /\ HasReset(dataExchange[2])
    /\ currentPolarityPacketPosition > 0

\* deadline + k * interval.
RECURSIVE Advanced(_, _, _)
Advanced(deadline, interval, k) ==
    IF k = 0 THEN deadline ELSE Advanced(Add64(deadline, interval), interval, k - 1)

\* C20: whenever the time trigger fires, the commit completes with the
\* deadline moved on by one or more whole intervals, as the loop moves it,
\* and no longer behind the full timestamp, so that a next record with the
\* same timestamp does not fire the time trigger.
C20_DeadlineReArmed ==
    [][(pc = "decode" /\ edvsContainerTimeCommit(Decoder) /\ pc' # pc) =>
           LET full == generateFullTimestamp(timestamps.wrapOverflow,
                           timestamps.current)
           IN  /\ pc' \in {"wait", "decode", "putForce"}
               /\ \E k \in 1..(MaxReArmTime + 1) :
                      currentPacketContainerCommitTimestamp' =
                          Advanced(currentPacketContainerCommitTimestamp,
                              I32T(maxPacketContainerInterval), k)
               /\ currentPacketContainerCommitTimestamp' =
                      edvsReArmLoop(full, currentPacketContainerCommitTimestamp,
                          maxPacketContainerInterval)
               /\ ~Less64(currentPacketContainerCommitTimestamp', full)]_vars

BigWrapTaken ==
    pc = "decode" /\ timestamps'.wrapOverflow = timestamps.wrapOverflow + 1

WrapEvent == [t |-> INT32_MAX, type |-> TIMESTAMP_WRAP]

\* C22: the record of a big wrap adds one to the overflow epoch, zeroes
\* wrapAdd and lastShort, appends one TIMESTAMP_WRAP event to the special
\* packet and commits in the same record: the container takes the pending
\* events with the TIMESTAMP_WRAP event last among the special events (it is
\* put when the buffer has space), and the packets in progress are left
\* without events, so that no later event joins an earlier one.
C22_BigWrap ==
    [][BigWrapTaken =>
           /\ timestamps'.wrapAdd = 0
           /\ timestamps'.lastShort = 0
           /\ NothingPending'
           /\ IF dataExchangeHasSpace(dataExchange)
              THEN /\ Len(dataExchange') = Len(dataExchange) + 1
                   /\ LET container == dataExchange'[Len(dataExchange')]
                      IN  /\ dataExchange' = Append(dataExchange, container)
                          /\ container.polarity = PendingContainer.polarity
                          /\ container.special.events =
                                 Append(edvsAllocate(Decoder, "none").spc.events,
                                     WrapEvent)
              ELSE dataExchange' = dataExchange]_vars

\* C22 happens: a container in the buffer holds polarity events decoded
\* before a big wrap and the TIMESTAMP_WRAP event, and the decoder is in
\* the epoch after it.
C22_Witness ==
    /\ timestamps.wrapOverflow = 1
    /\ \E i \in DOMAIN dataExchange :
           /\ dataExchange[i].polarity # NULL
           /\ dataExchange[i].special # NULL
           /\ dataExchange[i].special.events = <<WrapEvent>>

\* Commit intervals the reset's deadline is computed for.
ResetIntervals == {1, 2, 3, 10000}

\* C23: the record that takes a reset zeroes wrapOverflow, wrapAdd,
\* lastShort and current, sets the commit deadline to interval - 1, and
\* commits in the same record whatever the size and time triggers say: the
\* packets in progress are left without events.
C23_Reset ==
    [][ResetTaken =>
           /\ timestamps'.wrapOverflow = 0
           /\ timestamps'.wrapAdd = 0
           /\ timestamps'.lastShort = 0
           /\ timestamps'.current = 0
           /\ currentPacketContainerCommitTimestamp' =
                  I64T(I32T(maxPacketContainerInterval) - 1)
           /\ NothingPending'
           /\ \A interval \in ResetIntervals, yByte \in YBytes, tsBytes \in TSBytes :
                  LET rec == edvsRecord(edvsAllocate(Decoder, "none"), TRUE,
                                 interval, yByte, 0,
                                 ShortTS(tsBytes[1], tsBytes[2]))
                      r == edvsCommit(rec, maxPacketContainerPacketSize,
                               interval, "none")
                  IN  /\ rec.commitTS = I64T(interval - 1)
                      /\ r.commitTS = I64T(interval - 1)
                      /\ r.polPos = 0 /\ r.spcPos = 0
                      /\ r.status = "putForce"]_vars

\* C23 happens: a reset was taken in epoch 1 or after timestamps above 0,
\* with events pending: their container is in the buffer, the reset
\* container follows it, and the timestamps are zero.
C23_Witness ==
    /\ pc = "putForce"
    /\ HasReset(tsResetContainer)
    /\ timestamps = FreshTimestamps
    /\ currentPacketContainerCommitTimestamp = I64T(maxPacketContainerInterval - 1)
    /\ \E i \in DOMAIN dataExchange :
           /\ tsResetContainer.id = (dataExchange[i].id + 1) % IdRange
           /\ dataExchange[i].polarity # NULL
           /\ \E e \in DOMAIN dataExchange[i].polarity.events :
                  dataExchange[i].polarity.events[e].t > 0

\* C24: a record that is no big wrap, taken without a reset.  A field below
\* lastShort is a small wrap: wrapAdd grows by 0x10000 and lastShort becomes
\* 0; any other field is a normal step: wrapAdd stays and lastShort becomes
\* the field.  Either way current is wrapAdd plus the field and last takes
\* the old current.
C24_SmallWrapOrNormal ==
    \A shortTS \in ShortTSValues :
        ~edvsIsBigWrap(timestamps, shortTS) =>
            LET r == edvsTimestampUpdate(timestamps, shortTS)
            IN  /\ IF shortTS < timestamps.lastShort
                   THEN r.wrapAdd = timestamps.wrapAdd + 65536 /\ r.lastShort = 0
                   ELSE r.wrapAdd = timestamps.wrapAdd /\ r.lastShort = shortTS
                /\ r.current = r.wrapAdd + shortTS
                /\ r.last = timestamps.current
                /\ r.wrapOverflow = timestamps.wrapOverflow

\* C24 happens: the field 1 came after the field 2 and made a small wrap.
C24_Witness ==
    /\ timestamps.wrapAdd = 65536
    /\ timestamps.lastShort = 0
    /\ timestamps.current = 65537
    /\ timestamps.last = 2

\* The words of ImuWords that are IMU fragments, IMU configurations and IMU
\* Ends.
ImuSampleWords == {event \in ImuWords : DvxCode(event) = 5} \cup {7}

\* C25: while the ignore flag is set (as it is from DataStart to the first
\* IMU Start) and between an IMU End and the next IMU Start, no IMU
\* fragment, IMU configuration or IMU End appends an IMU event or changes
\* the sample under assembly.
C25_IgnoredFragments ==
    (pc = "decode" /\ (imu.ignoreEvents \/ imu.ended)) =>
        \A event \in ImuSampleWords :
            LET r == dvxWord(DvxAtWord, event, maxPacketContainerInterval, "none")
            IN  /\ r.imu6 = DvxAtWord.imu6
                /\ r.imu6Pos = DvxAtWord.imu6Pos
                /\ r.imu.count = imu.count
                /\ r.imu.type = imu.type

\* The decoder after n more IMU fragments.
RECURSIVE ImuAfterFragments(_, _)
ImuAfterFragments(d, n) ==
    IF n = 0 THEN d ELSE ImuAfterFragments(dvxImuData(d), n - 1)

\* The IMU configuration word that declares the sub-sensors of type.
ImuConfigWord(type) == 3 * 256 + type * 32

\* Fragments of a sample: 6 of the accelerometer, 2 of the temperature and
\* 6 of the gyroscope, for those enabled.
ImuFragments(type) ==
    6 * ((type \div IMU_TYPE_ACCEL) % 2) + 2 * ((type \div IMU_TYPE_TEMP) % 2)
        + 6 * ((type \div IMU_TYPE_GYRO) % 2)

\* C26: with the ignore flag clear, an IMU End appends one IMU event,
\* stamped with the current timestamp, exactly when the count is 14; and
\* after the configuration of any non-empty set of sub-sensors the count is
\* 14 after the fragments of the enabled sub-sensors and not before, so an
\* End that comes earlier appends nothing.
C26_ImuEnd ==
    (pc = "decode" /\ ~imu.ignoreEvents) =>
        /\ LET r == dvxImuEnd(DvxAtWord, 7, "none")
           IN  IF imu.count = 14
               THEN /\ r.imu6Pos = DvxAtWord.imu6Pos + 1
                    /\ Len(r.imu6.events) = Len(DvxAtWord.imu6.events) + 1
                    /\ r.imu6.events[Len(r.imu6.events)].t = timestamps.current
               ELSE r.imu6Pos = DvxAtWord.imu6Pos /\ r.imu6 = DvxAtWord.imu6
        /\ \A type \in 1..7 :
               LET configured == dvxImuConfig(DvxAtWord, ImuConfigWord(type))
               IN  \A n \in 0..ImuFragments(type) :
                       LET d == ImuAfterFragments(configured, n)
                           r == dvxImuEnd(d, 7, "none")
                       IN  /\ (d.imu.count = 14) = (n = ImuFragments(type))
                           /\ r.imu6Pos = d.imu6Pos
                                  + (IF n = ImuFragments(type) THEN 1 ELSE 0)

\* C26 happens: after the configuration "temperature only" and its two
\* fragments an IMU End has appended an event stamped 1.
C26_Witness ==
    /\ imu.type = IMU_TYPE_TEMP
    /\ imu.count = 14
    /\ imu.ended
    /\ \E e \in ImuEvents : e.t = 1 /\ e.count = 14

\* IMU fragments, IMU configurations and the IMU End.
ImuIgnoredWords ==
    {5 * 4096 + misc8Code * 256 + misc8Data :
        misc8Code \in {0, 3}, misc8Data \in {0, 32, 64, 128, 224, 255}} \cup {7}

\* Words other than the IMU Start: those of the two streams.
NotImuStartWords == (ImuWords \cup DvsWords \cup ImuIgnoredWords) \ {5}

\* The step commits a reset (its container goes to the forced put) or a big
\* wrap.
ForcedCommitTaken ==
    /\ pc = "decode"
    /\ \/ pc' = "putForce"
       \/ timestamps'.wrapOverflow = timestamps.wrapOverflow + 1

\* C27: the ignore flag is set by dvExplorerDataStart and by the word whose
\* reset or big wrap is committed; while it is set IMU fragments,
\* configurations and Ends change neither the IMU packet nor the assembly
\* state; and no word but the IMU Start clears it.
C27_IgnoreUntilStart ==
    /\ [][/\ (pc = "off" /\ pc' # "off") => imu'.ignoreEvents
          /\ ForcedCommitTaken => imu'.ignoreEvents
          /\ (imu.ignoreEvents /\ ~imu'.ignoreEvents) =>
                 pc = "decode" /\ imu' = dvxImuStart(DvxAtWord).imu
         ]_vars
    /\ []((pc = "decode" /\ imu.ignoreEvents) =>
              /\ \A event \in ImuIgnoredWords :
                     LET r == dvxWord(DvxAtWord, event,
                                      maxPacketContainerInterval, "none")
                     IN  r.imu = imu /\ r.imu6 = DvxAtWord.imu6
                             /\ r.imu6Pos = DvxAtWord.imu6Pos
              /\ \A event \in NotImuStartWords : \A fail \in {"none", "grow"} :
                     dvxIteration(DvxDecoder, event, maxPacketContainerPacketSize,
                         maxPacketContainerInterval, fail).imu.ignoreEvents)

\* C27 happens: an IMU Start cleared the flag and fragments were counted,
\* then a big wrap was committed and set it again.
C27_Witness ==
    /\ pc = "decode"
    /\ imu.ignoreEvents
    /\ imu.count > 0
    /\ timestamps.wrapOverflow = 1

\* Words that no case handles: the reserved special code 0 and the special
\* codes 6, 8, 18 and 4095, the misc8 codes 1, 2 and 15, and the code 6.
UnknownWords ==
    {0, 6, 8, 18, 4095,
     5 * 4096 + 1 * 256, 5 * 4096 + 2 * 256 + 17, 5 * 4096 + 15 * 256 + 255,
     6 * 4096, 6 * 4096 + 4095}

\* C28: a word with a reserved or unknown special code, an unknown misc8
\* code or an unknown code leaves the event counts, the packets, the
\* timestamps, the coordinate and the IMU state as they were, puts nothing
\* into the buffer and does not end the loop.
C28_UnknownDropped ==
    pc = "decode" =>
        \A event \in UnknownWords :
            LET r == dvxIteration(DvxDecoder, event, maxPacketContainerPacketSize,
                         maxPacketContainerInterval, "none")
            IN  /\ r.polPos = DvxAtWord.polPos
                /\ r.spcPos = DvxAtWord.spcPos
                /\ r.imu6Pos = DvxAtWord.imu6Pos
                /\ r.pol = DvxAtWord.pol
                /\ r.spc = DvxAtWord.spc
                /\ r.imu6 = DvxAtWord.imu6
                /\ r.ts = timestamps
                /\ r.dvs = dvs
                /\ r.imu = imu
                /\ r.buffer = dataExchange
                /\ r.status = "ok"

\* C28 happens: the translator is at a word with an event in the polarity
\* packet, a stored column, a group address and the timestamp 1.
C28_Witness ==
    /\ pc = "decode"
    /\ currentPolarityPacketPosition > 0
    /\ dvs.lastY > 0
    /\ dvs.lastX > 0
    /\ timestamps.current = 1

\* The offsets of the bits set in a group's mask, counted from the bit
\* 0x80.
MaskOffsets(data) == {i \in 0..7 : (data \div (2 ^ (7 - i))) % 2 = 1}

\* Group words of both polarities: no pixel, one at either end, both ends,
\* the two middle ones, alternating ones, all eight, and bits above the
\* mask.
BurstWords ==
    {code * 4096 + data : code \in {2, 3},
                          data \in {0, 1, 128, 129, 24, 85, 170, 255, 3840 + 66}}

\* C29: a group word with k bits in its mask appends k polarity events
\* after those of the packet, in the order of their offsets from the bit
\* 0x80, each with the current timestamp, the word's polarity, the stored
\* column and the row lastX + offset, the two coordinates swapped when
\* invertXY is set; lastX and lastY stay.
C29_Burst ==
    pc = "decode" =>
        \A event \in BurstWords :
            LET r == dvxWord(DvxAtWord, event, maxPacketContainerInterval, "none")
                offsets == MaskOffsets(DvxData(event))
                before == Len(DvxAtWord.pol.events)
            IN  /\ r.polPos = DvxAtWord.polPos + Cardinality(offsets)
                /\ Len(r.pol.events) = before + Cardinality(offsets)
                /\ SubSeq(r.pol.events, 1, before) = DvxAtWord.pol.events
                /\ \A i \in offsets :
                       LET e == r.pol.events[
                                    before + Cardinality({o \in offsets : o < i}) + 1]
                       IN  /\ e.t = timestamps.current
                           /\ e.polarity = (DvxCode(event) = 3)
                           /\ IF dvs.invertXY
                              THEN e.x = dvs.lastY /\ e.y = dvs.lastX + i
                              ELSE e.x = dvs.lastX + i /\ e.y = dvs.lastY
                /\ r.dvs = dvs

\* C29 happens: with invertXY set, the column 1 and the group address 16
\* the polarity packet holds the ON event of the offset 0 at timestamp 1.
C29_Witness ==
    /\ dvs.invertXY
    /\ dvs.lastY = 1
    /\ dvs.lastX = 16
    /\ currentPolarityPacket # NULL
    /\ \E n \in 1..Len(currentPolarityPacket.events) :
           LET e == currentPolarityPacket.events[n]
           IN  e.t = 1 /\ e.polarity /\ e.x = 1 /\ e.y = 16

\* The translator's loop takes a step: it alone changes bytesLeft while
\* it decodes.
LoopStep == pc = "decode" /\ bytesLeft' # bytesLeft

\* An allocation of the DV Explorer's loop top is due.
DvxAllocationDue ==
    \/ ~currentPacketContainer
    \/ currentPolarityPacket = NULL
    \/ currentSpecialPacket = NULL
    \/ currentIMU6Packet = NULL

\* C30: the translators read inside the chunk.  The DV Explorer drops the
\* odd byte at the entry, is at a word only with two bytes left and takes
\* the words two bytes at a time to the end of the chunk (short of a
\* failed allocation).  The eDVS skips one byte at a time, changes its
\* state by a record only with four bytes left, and with fewer drops the
\* rest of the chunk leaving its state as it was; between chunks no byte
\* is left over.
C30_ChunkBounds ==
    /\ [](pc = "wait" => bytesLeft = 0)
    /\ [](pc = "decode" =>
             IF IsEdvs THEN bytesLeft >= 1
             ELSE bytesLeft >= 2 /\ bytesLeft % 2 = 0)
    /\ [][/\ (pc = "entry" /\ pc' # "entry" /\ ~IsEdvs /\ run) =>
                 bytesLeft' = 2 * (bytesLeft \div 2)
          /\ (LoopStep /\ ~IsEdvs) =>
                 \/ bytesLeft' = bytesLeft - 2
                       /\ pc' \in (IF bytesLeft' > 0 THEN {"decode", "putForce"}
                                    ELSE {"wait", "putForce"})
                 \/ DvxAllocationDue /\ bytesLeft' = 0 /\ pc' = "wait"
          /\ (LoopStep /\ IsEdvs) =>
                 \/ bytesLeft' = bytesLeft - 1 /\ UNCHANGED pktVars
                 \/ bytesLeft >= EDVS_EVENT_SIZE
                       /\ \/ bytesLeft' = bytesLeft - EDVS_EVENT_SIZE
                          \/ bytesLeft' = 0 /\ pc' = "wait"
                 \/ bytesLeft < EDVS_EVENT_SIZE /\ bytesLeft' = 0 /\ pc' = "wait"
                       /\ UNCHANGED <<pktVars, dvsTSReset, tsResetContainer,
                                      dataExchange>>
          /\ (pc = "decode" /\ pktVars' # pktVars) =>
                 bytesLeft >= (IF IsEdvs THEN EDVS_EVENT_SIZE ELSE 2)
         ]_vars

\* C30 happens: the eDVS translator has decoded a record of the chunk and
\* is at a byte with three bytes left.
C30_Witness ==
    /\ IsEdvs
    /\ pc = "decode"
    /\ bytesLeft = 3
    /\ currentPolarityPacketPosition > 0

\* C31: decoding a chunk terminates for every value of the thresholds: the
\* translator is never inside the re-arm loop of edvs.c 927-931 with a
\* deadline behind the full timestamp and an interval that does not move
\* it, the state from which the loop has no exit.
C31_ReArmLoopExits ==
    ~(/\ pc = "rearm"
      /\ I32T(maxPacketContainerInterval) <= 0
      /\ Less64(currentPacketContainerCommitTimestamp,
                generateFullTimestamp(timestamps.wrapOverflow, timestamps.current)))

\* C32: the start of the serial stream always returns: the starter is never
\* left waiting for the ready signal of a thread that has set the run flag,
\* cleared it again and returned.
C32_StartReturns == ~(stopPc = "starting" /\ pc = "exited" /\ ~run)

\* The reset events of a container.
ResetEvents(container) ==
    {i \in 1..Len(container.special.events) :
        container.special.events[i].type = TIMESTAMP_RESET}

C34_WritesInsideCapacity ==
    /\ \A pp \in InProgress :
           pp[1] # NULL => Len(pp[1].events) <= pp[1].capacity
    /\ (~IsEdvs /\ pc = "decode") =>
           /\ \A position \in 0..DvxAtWord.pol.capacity :
                  position + 8 <=
                      ensureSpaceForEvents(DvxAtWord.pol, position, 8).capacity
           /\ DvxAtWord.spcPos + 1 <=
                  ensureSpaceForEvents(DvxAtWord.spc, DvxAtWord.spcPos, 1).capacity
           /\ DvxAtWord.imu6Pos + 1 <=
                  ensureSpaceForEvents(DvxAtWord.imu6, DvxAtWord.imu6Pos, 1).capacity
    /\ (IsEdvs /\ pc = "decode" /\ bytesLeft >= EDVS_EVENT_SIZE) =>
           LET d == edvsAllocate(Decoder, "none")
           IN  d.polPos < d.pol.capacity /\ d.spcPos < d.spc.capacity

\* C34 happens: the DV Explorer's polarity packet was doubled for a group
\* and holds its events.
C34_Witness ==
    /\ ~IsEdvs
    /\ currentPolarityPacket # NULL
    /\ currentPolarityPacket.capacity = 2 * DV_EXPLORER_POLARITY_DEFAULT_SIZE
    /\ currentPolarityPacketPosition > 1

\* C35: wrapAdd is a multiple of 0x10000 from 0 to 0x7FFF0000, a wrap is the
\* big wrap exactly at wrapAdd = 0x7FFF0000, and current, the sum of wrapAdd
\* and the field, is from 0 to INT32_MAX, now and after the next record.
C35_NoOverflow ==
    /\ timestamps.wrapAdd % 65536 = 0
    /\ timestamps.wrapAdd >= 0 /\ timestamps.wrapAdd <= 2147418112
    /\ timestamps.current >= 0 /\ timestamps.current <= INT32_MAX
    /\ timestamps.current - timestamps.wrapAdd \in 0..65535
    /\ \A shortTS \in ShortTSValues :
           /\ edvsIsBigWrap(timestamps, shortTS) =
                  (shortTS < timestamps.lastShort
                       /\ timestamps.wrapAdd = 2147418112)
           /\ LET r == IF edvsIsBigWrap(timestamps, shortTS)
                       THEN edvsTimestampBigWrap(timestamps)
                       ELSE edvsTimestampUpdate(timestamps, shortTS)
              IN  /\ r.wrapAdd >= 0 /\ r.wrapAdd <= 2147418112
                  /\ r.current >= 0
                  /\ r.current - r.wrapAdd \in 0..65535

\* C35 happens: the timestamp has its greatest value, 0x7FFF0000 + 0xFFFF.
C35_Witness ==
    /\ timestamps.wrapAdd = 2147418112
    /\ timestamps.current = INT32_MAX

\* C36: an IMU Start yields at most one IMU event: of two IMU Ends that
\* follow one another, with the ignore flag clear, at most one appends.
C36_OneEventPerStart ==
    (pc = "decode" /\ ~imu.ignoreEvents) =>
        LET first == dvxImuEnd(DvxAtWord, 7, "none")
            second == dvxImuEnd(first, 7, "none")
        IN  second.imu6Pos <= DvxAtWord.imu6Pos + 1

\* The counts that 1 to 256 further fragments give, from count, with the
\* sub-sensors of type: the step of dv_explorer.c 1305-1401 repeated.
ImuCountsAfter(count, type) ==
    LET f1 == [c \in 0..255 |-> (dvxImuCountSkip(c, type) + 1) % 256]
        f2 == [c \in 0..255 |-> f1[f1[c]]]
        f4 == [c \in 0..255 |-> f2[f2[c]]]
        f8 == [c \in 0..255 |-> f4[f4[c]]]
        f16 == [c \in 0..255 |-> f8[f8[c]]]
        f32 == [c \in 0..255 |-> f16[f16[c]]]
        f64 == [c \in 0..255 |-> f32[f32[c]]]
        f128 == [c \in 0..255 |-> f64[f64[c]]]
        r1 == {f1[count]}
        r2 == r1 \cup {f1[c] : c \in r1}
        r4 == r2 \cup {f2[c] : c \in r2}
        r8 == r4 \cup {f4[c] : c \in r4}
        r16 == r8 \cup {f8[c] : c \in r8}
        r32 == r16 \cup {f16[c] : c \in r16}
        r64 == r32 \cup {f32[c] : c \in r32}
        r128 == r64 \cup {f64[c] : c \in r64}
    IN  r128 \cup {f128[c] : c \in r128}

\* C37: the count does not come back to the total by wrapping: from a
\* count of the total or more, with the ignore flag clear, no number of
\* further fragments up to 256 makes it the total again.
C37_NoWrapToTotal ==
    (pc = "decode" /\ ~imu.ignoreEvents /\ imu.count >= IMU_TOTAL_COUNT) =>
        IMU_TOTAL_COUNT \notin ImuCountsAfter(imu.count, imu.type)

\* C38: with a size maximum S above 0 that does not change, a packet of a
\* container handed to the exchange holds at most S events in the eDVS and
\* at most S + 7 in the DV Explorer, where a group word appends up to 8
\* events before the size trigger is looked at: after any group word the
\* containers of the buffer keep that limit and the polarity packet in
\* progress is below S again.
C38_DeliveredPacketSize ==
    maxPacketContainerPacketSize > 0 =>
        /\ \A container \in Enqueued : \A packet \in Packets(container) :
               Len(packet.events) <=
                   maxPacketContainerPacketSize + (IF IsEdvs THEN 0 ELSE 7)
        /\ (~IsEdvs /\ pc = "decode") =>
               \A event \in BurstWords :
                   LET r == dvxIteration(DvxDecoder, event,
                                maxPacketContainerPacketSize,
                                maxPacketContainerInterval, "none")
                   IN  /\ \A i \in 1..Len(r.buffer) :
                              Len(r.buffer[i].polarity.events) <=
                                  maxPacketContainerPacketSize + 7
                       /\ r.polPos < maxPacketContainerPacketSize

\* C38 happens: the DV Explorer's buffer holds a container whose polarity
\* packet has as many events as the maximum.
C38_Witness ==
    /\ ~IsEdvs
    /\ maxPacketContainerPacketSize > 0
    /\ dataExchange # <<>>
    /\ Len(dataExchange[1].polarity.events) = maxPacketContainerPacketSize

\* C39: a record that is no reset and no big wrap and whose full timestamp
\* is above the commit deadline is appended before the time trigger is
\* looked at: it is the last polarity event of the packet that the commit
\* moves into the container, the container goes to the buffer unless that
\* is full, and every earlier event of the packet has a full timestamp not
\* above the deadline.  The record leaves the deadline as it was, unless
\* there was none (-1): then the record is the first of its packet.
C39_TimeTriggerLastEvent ==
    (pc = "decode" /\ bytesLeft >= EDVS_EVENT_SIZE /\ ~dvsTSReset) =>
        \A yByte \in YBytes, xByte \in XBytes, tsBytes \in TSBytes :
            LET at == edvsAllocate(Decoder, "none")
                rec == edvsRecord(at, FALSE, maxPacketContainerInterval, yByte,
                           xByte, ShortTS(tsBytes[1], tsBytes[2]))
                r == edvsCommit(rec, maxPacketContainerPacketSize,
                         maxPacketContainerInterval, "none")
            IN  (HighBit(yByte) /\ ~rec.tsBigWrap /\ edvsContainerTimeCommit(rec)) =>
                    /\ rec.polPos = at.polPos + 1
                    /\ rec.pol.events[rec.polPos].t = rec.ts.current
                    /\ at.commitTS # I64T(-1) => rec.commitTS = at.commitTS
                    /\ at.commitTS = I64T(-1) => at.polPos = 0
                    /\ \A j \in 1..at.polPos :
                           ~Less64(rec.commitTS,
                                   generateFullTimestamp(rec.ts.wrapOverflow,
                                       rec.pol.events[j].t))
                    /\ r.polPos = 0
                    /\ IF dataExchangeHasSpace(at.buffer)
                       THEN r.buffer[Len(r.buffer)].polarity.events = rec.pol.events
                       ELSE r.buffer = at.buffer

\* C39 happens: with the size trigger off, the buffer holds a container
\* whose polarity packet ends with the event of timestamp 1 that passed the
\* deadline, after an event of timestamp 0.
C39_Witness ==
    /\ maxPacketContainerPacketSize = 0
    /\ dataExchange # <<>>
    /\ Len(dataExchange[1].polarity.events) = 2
    /\ dataExchange[1].polarity.events[1].t = 0
    /\ dataExchange[1].polarity.events[2].t = 1

\* C40: at every record the translator can decode, with the reset request
\* set or not, and for every address byte and timestamp field of the input
\* sets: a record that consumes the request or takes a big wrap leaves the
\* polarity packet as it is; every other record appends exactly one event
\* to it, with x and y the low seven bits of the two address bytes, the
\* polarity the high bit of the x byte, and the timestamp wrapAdd (raised
\* by 65536 on a small wrap) plus the timestamp field.
C40_OneEventPerRecord ==
    (pc = "decode" /\ bytesLeft >= EDVS_EVENT_SIZE) =>
        \A reset \in BOOLEAN, yByte \in {131, 255},
           xByte \in {5, 133, 255}, shortTS \in ShortTSValues :
            LET at == edvsAllocate(Decoder, "none")
                rec == edvsRecord(at, reset, maxPacketContainerInterval, yByte,
                           xByte, shortTS)
                wrap == shortTS < at.ts.lastShort
                bigWrap == wrap /\ at.ts.wrapAdd = INT32_MAX - (TS_WRAP_ADD - 1)
            IN  IF reset \/ bigWrap
                THEN /\ rec.pol = at.pol
                     /\ rec.polPos = at.polPos
                     /\ rec.tsReset = reset
                     /\ rec.tsBigWrap = ~reset
                ELSE /\ rec.polPos = at.polPos + 1
                     /\ rec.pol.events =
                            Append(at.pol.events,
                                [t |-> (IF wrap THEN at.ts.wrapAdd + TS_WRAP_ADD
                                        ELSE at.ts.wrapAdd) + shortTS,
                                 x |-> xByte % 128,
                                 y |-> yByte % 128,
                                 polarity |-> xByte >= 128])
                     /\ rec.spc = at.spc
                     /\ ~rec.tsReset /\ ~rec.tsBigWrap

\* C40 happens: in the epoch after a big wrap the polarity packet in
\* progress holds the one event of the one record decoded since, x = 5,
\* y = 3, polarity on, and the reconstructed timestamp 1.
C40_Witness ==
    /\ timestamps.wrapOverflow = 1
    /\ currentPolarityPacketPosition = 1
    /\ currentPolarityPacket.events =
           <<[t |-> 1, x |-> 5, y |-> 3, polarity |-> TRUE]>>
    /\ timestamps.current = 1
====
